---- MODULE Spec2Model ----
(***************************************************************************)
(* A model of echoBell's decision core.                                    *)
(*                                                                         *)
(* BehaviorManager (apps/orchestrator/event.py) is the subject persistence *)
(* and alert-suppression engine: execute(evt) reads the clock, derives the *)
(* subject key of the event, tracks the subject in memory, and answers     *)
(* pending, suppressed or alert; alerts are rows of the sqlite table       *)
(* `alerts`, which outlives the engine object.                             *)
(*                                                                         *)
(* Time is counted in tenths of a second, so that the instants 2.0 s,      *)
(* 2.1 s and 60 s of the engine's defaults are the integers 20, 21, 600.   *)
(*                                                                         *)
(* classify (packages/classify/intent.py) is the intent resolver: it reads *)
(* the rule tables of the sqlite store on every call and scores a text and *)
(* a list of evidence items against them.                                  *)
(*                                                                         *)
(* EventBus and bell_orchestrator (apps/orchestrator) are the transport    *)
(* and the loop that consumes it until the shutdown sentinel.              *)
(***************************************************************************)
EXTENDS Integers, Sequences, FiniteSets, TLC

VARIABLES
    now,         \* the latest reading of time.time() (non-decreasing clock)
    subjects,    \* BehaviorManager.subjects: subject_key -> SubjectState
    last_scene,  \* BehaviorManager.last_scene: <<>> is None, <<s>> is SceneSummary s
    alerts,      \* rows of the sqlite table alerts, in insertion (id) order
    evt,         \* the argument of the latest execute call
    ret,         \* the dict the latest execute call returned
    script,      \* calls the manual test script has made so far
    pc,          \* concurrent callers: where each stands in execute
    frame,       \* concurrent callers: the locals and the result of each
    impl,        \* which EventBus class the orchestrator runs: "queue" or "list"
    queue,       \* EventBus.queue / EventBus.events: the events pending
    bus_evt,     \* bell_orchestrator: its local evt, <<>> before the first
    cpc,         \* bell_orchestrator: where the consumer loop stands
    published,   \* history: every event published, in the order of effect
    delivered,   \* history: every event subscribe returned, in order
    handled,     \* history: every event the loop finished handling, in order
    store,       \* the rule store: its four tables and whether it can be read
    cls_in,      \* the arguments (text, evidence) of the classify call
    cls,         \* what the latest classify call returned, or that it raised
    cam,         \* camera_loop: its locals, and the presence it has polled
    mig          \* migrate: the database's user_version, the migration files,
                 \* and the history of the scripts executed

engineVars == <<now, subjects, last_scene, alerts, evt, ret>>
busVars == <<impl, queue, bus_evt, cpc, published, delivered, handled>>
clsVars == <<store, cls_in, cls>>
camVars == <<cam>>
migVars == <<mig>>
otherVars == <<busVars, clsVars, camVars, migVars>>
nonEngineVars == <<script, pc, frame, otherVars>>
vars == <<engineVars, nonEngineVars>>

----------------------------------------------------------------------------
(* Configuration and bounds *)

MinPersist == 20       \* min_persist = 2.0 s
AlertCooldown == 600   \* alert_cooldown = 60.0 s

MaxCount == 2          \* largest count a payload carries
MaxSubjects == 2       \* subject keys one engine tracks
MaxAlerts == 3         \* rows the alerts table holds
MaxPublished == 4      \* events published on one bus
MaxText == 2           \* characters of a text
MaxEvidence == 2       \* evidence items of one perception bundle
MaxPollTime == 130     \* the camera loop is followed for 13 s
MaxRuns == 2           \* runs of migrate on one database

\* The instants at which execute is called: just before and at min_persist
\* after 0, and just before and at alert_cooldown after an alert at 20.
Times == {0, 19, 20, 619, 620}
\* The instants of the scene specifications: a first sight and a second one
\* past min_persist.
SceneTimes == {0, 20}
\* The instants of the manual test: 0 s, 2.1 s, 10 s.
ScriptTimes == <<0, 21, 100>>

Sources == {"driveway", "doorbell"}
Kinds == {"vehicle", "person", "none"}      \* "none": the event has no kind
PayloadKeys == {"num_vehicles", "num_people"}
\* The empty dict stands for a payload of None and of {} alike, both falsy
\* in `if evt.payload`.
NoPayload == <<>>
Counts(v, p) == [num_vehicles |-> v, num_people |-> p]
Payloads == {NoPayload} \cup [PayloadKeys -> 0..MaxCount]

\* The event of the manual test, and the events that differ from it in
\* exactly one component of the subject key: the source, the type, the
\* vehicle count, the person count.
ManualEvent ==
    [source |-> "driveway", type |-> "approach", kind |-> "vehicle",
     payload |-> Counts(1, 0)]
Events ==
    { ManualEvent,
      [ManualEvent EXCEPT !.source = "doorbell"],
      [ManualEvent EXCEPT !.type = "ring"],
      [ManualEvent EXCEPT !.payload = Counts(2, 0)],
      [ManualEvent EXCEPT !.payload = Counts(1, 1)] }

\* Every scene composition a payload reports, at the two sources.
SceneEvents ==
    [source : Sources, type : {"approach"}, kind : {"none"},
     payload : [PayloadKeys -> 0..MaxCount]]

\* Every event the manual test may build.
ScriptEvents ==
    [source : Sources, type : {"approach", "ring"}, kind : Kinds, payload : Payloads]

\* The events of successive engines on one database, and of concurrent
\* callers of one engine.
RestartEvents ==
    { ManualEvent,
      [ManualEvent EXCEPT !.source = "doorbell"],
      [ManualEvent EXCEPT !.payload = Counts(2, 0)] }
RaceEvents == {ManualEvent, [ManualEvent EXCEPT !.payload = Counts(2, 0)]}
RaceTimes == {0, 20, 21}
Callers == {"c1", "c2"}

NoEvent == [source |-> "", type |-> "", kind |-> "none", payload |-> <<>>]
NoCall == [status |-> "none", action |-> "none"]
NoFrame == [evt |-> NoEvent, now |-> 0, key |-> "", ret |-> NoCall]

----------------------------------------------------------------------------
(* BehaviorManager helpers *)

Get(d, k, default) == IF k \in DOMAIN d THEN d[k] ELSE default

Truthy(d) == DOMAIN d # {}

\* The counts taken from the payload alone, without the fallback on kind.
ExtractCountsNoFallback(e) ==
    <<IF Truthy(e.payload) THEN Get(e.payload, "num_vehicles", 0) ELSE 0,
      IF Truthy(e.payload) THEN Get(e.payload, "num_people", 0) ELSE 0>>

\* The fallback on kind made for vehicles only.
ExtractCountsVehicleOnly(e) ==
    LET pv == IF Truthy(e.payload) THEN Get(e.payload, "num_vehicles", 0) ELSE 0
        pp == IF Truthy(e.payload) THEN Get(e.payload, "num_people", 0) ELSE 0
    IN  <<IF pv = 0 /\ e.kind = "vehicle" THEN 1 ELSE pv, pp>>

\* The fallback on kind made only for an event without a payload.
ExtractCountsPayloadFirst(e) ==
    IF Truthy(e.payload)
    THEN <<Get(e.payload, "num_vehicles", 0), Get(e.payload, "num_people", 0)>>
    ELSE <<IF e.kind = "vehicle" THEN 1 ELSE 0, IF e.kind = "person" THEN 1 ELSE 0>>

\* _extract_counts: <<num_vehicles, num_people>>
ExtractCounts(e) ==
    LET pv == IF Truthy(e.payload) THEN Get(e.payload, "num_vehicles", 0) ELSE 0
        pp == IF Truthy(e.payload) THEN Get(e.payload, "num_people", 0) ELSE 0
        nv == IF pv = 0 /\ e.kind = "vehicle" THEN 1 ELSE pv
        np == IF pp = 0 /\ e.kind = "person" THEN 1 ELSE pp
    IN  <<nv, np>>

\* The key without the person count.
SubjectKeyNoPeople(e, nv, np) ==
    e.source \o ":" \o e.type \o ":veh=" \o ToString(nv)

\* _subject_key: the f-string
SubjectKey(e, nv, np) ==
    e.source \o ":" \o e.type \o ":veh=" \o ToString(nv) \o ":ppl=" \o ToString(np)

KeyOf(e) == SubjectKey(e, ExtractCounts(e)[1], ExtractCounts(e)[2])

SetMax(S) == CHOOSE x \in S : \A y \in S : y <= x

\* The lookup with the rows in ascending order: the oldest row of the key.
RecentAlertExistsOldest(tbl, key, t) ==
    LET rows == {i \in 1..Len(tbl) : tbl[i].subject_key = key}
    IN  IF rows = {} THEN FALSE
        ELSE LET first_alert_ts == -SetMax({-tbl[i].last_alert_ts : i \in rows})
             IN  (t - first_alert_ts) < AlertCooldown

\* The lookup reading the column first_seen in place of last_alert_ts.
RecentAlertExistsByFirstSeen(tbl, key, t) ==
    LET rows == {i \in 1..Len(tbl) : tbl[i].subject_key = key}
    IN  IF rows = {} THEN FALSE
        ELSE LET last == SetMax({tbl[i].last_alert_ts : i \in rows})
                 row == CHOOSE i \in rows : tbl[i].last_alert_ts = last
             IN  (t - tbl[row].first_seen) < AlertCooldown

\* The lookup with the boundary instant counted as still inside the cooldown.
RecentAlertExistsInclusive(tbl, key, t) ==
    LET rows == {i \in 1..Len(tbl) : tbl[i].subject_key = key}
    IN  IF rows = {} THEN FALSE
        ELSE LET last_alert_ts == SetMax({tbl[i].last_alert_ts : i \in rows})
             IN  (t - last_alert_ts) <= AlertCooldown

\* _recent_alert_exists on table tbl
RecentAlertExists(tbl, key, t) ==
    LET rows == {i \in 1..Len(tbl) : tbl[i].subject_key = key}
    IN  IF rows = {} THEN FALSE
        ELSE LET last_alert_ts == SetMax({tbl[i].last_alert_ts : i \in rows})
             IN  (t - last_alert_ts) < AlertCooldown

\* The insert made conditional on the lookup, as one statement.
RecordAlertIfAbsent(tbl, key, first_seen, t) ==
    IF RecentAlertExists(tbl, key, t) THEN tbl
    ELSE Append(tbl, [subject_key |-> key, first_seen |-> first_seen, last_alert_ts |-> t])

\* The insert with the clock reading in both time columns.
RecordAlertNowTwice(tbl, key, first_seen, t) ==
    Append(tbl, [subject_key |-> key, first_seen |-> t, last_alert_ts |-> t])

\* The insert made an upsert: the older rows of the key are replaced.
RecordAlertUpsert(tbl, key, first_seen, t) ==
    Append(SelectSeq(tbl, LAMBDA r : r.subject_key # key),
           [subject_key |-> key, first_seen |-> first_seen, last_alert_ts |-> t])

\* _record_alert: the table after the INSERT
RecordAlert(tbl, key, first_seen, t) ==
    Append(tbl, [subject_key |-> key, first_seen |-> first_seen, last_alert_ts |-> t])

\* The tracking with a subject forgotten once it went unseen for a cooldown:
\* it starts anew on its return.
TrackSubjectExpiring(subj, key, t) ==
    IF key \notin DOMAIN subj \/ t - subj[key].last_seen >= AlertCooldown
    THEN [first_seen |-> t, last_seen |-> t, alert_sent |-> FALSE]
    ELSE [subj[key] EXCEPT !.last_seen = t]

\* execute, step 2: the SubjectState of key after this observation
TrackSubject(subj, key, t) ==
    IF key \notin DOMAIN subj
    THEN [first_seen |-> t, last_seen |-> t, alert_sent |-> FALSE]
    ELSE [subj[key] EXCEPT !.last_seen = t]

\* The gate with the boundary instant counted as not yet persisted.
NotPersistedInclusive(t, first_seen) == (t - first_seen) <= MinPersist

\* execute, step 3: the scene has not persisted yet
NotPersisted(t, first_seen) == (t - first_seen) < MinPersist

\* The returns with the cooldown lookup made before the persistence gate.
VerdictCooldownFirst(tbl, key, first_seen, t) ==
    IF RecentAlertExists(tbl, key, t) THEN "suppressed"
    ELSE IF NotPersisted(t, first_seen) THEN "pending"
    ELSE "alert"

\* The returns without the persistence gate.
VerdictUngated(tbl, key, first_seen, t) ==
    IF RecentAlertExists(tbl, key, t) THEN "suppressed" ELSE "alert"

\* execute, steps 3-5: which of the three returns is taken
Verdict(tbl, key, first_seen, t) ==
    IF NotPersisted(t, first_seen) THEN "pending"
    ELSE IF RecentAlertExists(tbl, key, t) THEN "suppressed"
    ELSE "alert"

\* The driveway phrasing with people compared before vehicles; the doorbell
\* and default phrasing as in the code.
SceneMessagePeopleFirst(prev, e, nv, np) ==
    IF e.source = "driveway"
    THEN IF prev = <<>> \/ prev[1].num_vehicles = 0
         THEN IF np >= 1 THEN "Someone is in the driveway."
              ELSE IF nv >= 1 THEN "A vehicle has arrived in the driveway."
              ELSE "Activity detected."
         ELSE IF np > prev[1].num_people
              THEN "Another person has entered the driveway. There are now "
                   \o ToString(np) \o " people in view."
              ELSE IF nv > prev[1].num_vehicles
              THEN "Another vehicle has arrived. There are now " \o ToString(nv)
                   \o " vehicles in the driveway."
              ELSE "There is ongoing activity in the driveway."
    ELSE IF e.source = "doorbell"
    THEN IF np >= 1 THEN "Someone is at the door."
         ELSE IF nv >= 1 THEN "A vehicle has pulled up by the door."
         ELSE "Activity detected."
    ELSE "Activity detected."

\* The doorbell phrasing made delta-aware like the driveway's: with a
\* previous summary whose people are not exceeded, the default message.
SceneMessageDoorbellDelta(prev, e, nv, np) ==
    IF e.source = "driveway"
    THEN IF prev = <<>> \/ prev[1].num_vehicles = 0
         THEN IF nv >= 1 THEN "A vehicle has arrived in the driveway."
              ELSE IF np >= 1 THEN "Someone is in the driveway."
              ELSE "Activity detected."
         ELSE IF nv > prev[1].num_vehicles
              THEN "Another vehicle has arrived. There are now " \o ToString(nv)
                   \o " vehicles in the driveway."
              ELSE IF np > prev[1].num_people
              THEN "Another person has entered the driveway. There are now "
                   \o ToString(np) \o " people in view."
              ELSE "There is ongoing activity in the driveway."
    ELSE IF e.source = "doorbell"
    THEN IF prev # <<>> /\ np <= prev[1].num_people THEN "Activity detected."
         ELSE IF np >= 1 THEN "Someone is at the door."
         ELSE IF nv >= 1 THEN "A vehicle has pulled up by the door."
         ELSE "Activity detected."
    ELSE "Activity detected."

\* _build_scene_message: the message (prev is last_scene)
SceneMessage(prev, e, nv, np) ==
    IF e.source = "driveway"
    THEN IF prev = <<>> \/ prev[1].num_vehicles = 0
         THEN IF nv >= 1 THEN "A vehicle has arrived in the driveway."
              ELSE IF np >= 1 THEN "Someone is in the driveway."
              ELSE "Activity detected."
         ELSE IF nv > prev[1].num_vehicles
              THEN "Another vehicle has arrived. There are now " \o ToString(nv)
                   \o " vehicles in the driveway."
              ELSE IF np > prev[1].num_people
              THEN "Another person has entered the driveway. There are now "
                   \o ToString(np) \o " people in view."
              ELSE "There is ongoing activity in the driveway."
    ELSE IF e.source = "doorbell"
    THEN IF np >= 1 THEN "Someone is at the door."
         ELSE IF nv >= 1 THEN "A vehicle has pulled up by the door."
         ELSE "Activity detected."
    ELSE "Activity detected."

\* The snapshot never taken: last_scene stays None.
SceneSnapshotForgotten(nv, np, t) == <<>>

\* The snapshot with the counts but not the time of the call.
SceneSnapshotUndated(nv, np, t) ==
    <<[num_vehicles |-> nv, num_people |-> np, last_update_ts |-> 0]>>

\* _build_scene_message: the snapshot it leaves in last_scene
SceneSnapshot(nv, np, t) ==
    <<[num_vehicles |-> nv, num_people |-> np, last_update_ts |-> t]>>

PendingDecision == [status |-> "pending", action |-> "none"]
\* The suppressed return asking the caller to speak.
SuppressedDecisionSpoken == [status |-> "suppressed", action |-> "speak"]
SuppressedDecision == [status |-> "suppressed", action |-> "none"]
AlertDecision(msg, key) ==
    [status |-> "alert", action |-> "speak", message |-> msg, subject_key |-> key]

----------------------------------------------------------------------------
(* The intent resolver: packages/classify/intent.py, classify(text,        *)
(* vision, db_path). A str is a sequence of one-character strings. A       *)
(* number read from a row or an evidence item is a cell: a number, SQL     *)
(* NULL / None, or a text that is no number. Weights, confidences of       *)
(* evidence and raw text scores count hundredths; unified scores and the   *)
(* text stage's mapped confidence count 1/10^4; the confidence returned    *)
(* counts 1/10^6: every product and sum of the code is then exact.         *)

Num(n) == [t |-> "num", v |-> n]
Null == [t |-> "null", v |-> 0]
NotANumber == [t |-> "text", v |-> 0]

\* Python truth of a cell: None and 0 are false, a non-empty str is true
CellTruthy(c) == c.t = "text" \/ (c.t = "num" /\ c.v # 0)

\* `c or default`
OrElse(c, default) == IF CellTruthy(c) THEN c ELSE Num(default)

\* float(c) / int(c) raise on None (TypeError) and on such a str (ValueError)
FloatRaises(c) == c.t # "num"
FloatOf(c) == c.v

LowerChar(c) == IF c = "A" THEN "a" ELSE IF c = "P" THEN "p" ELSE c

\* str.lower()
Lower(s) == [i \in 1..Len(s) |-> LowerChar(s[i])]

\* `p in t` on str
Contains(t, p) ==
    \E i \in 0..(Len(t) - Len(p)) : SubSeq(t, i + 1, i + Len(p)) = p

\* re.compile: "(" without ")" is re.error (unterminated subpattern)
RegexCompiles(p) == \A i \in 1..Len(p) : p[i] # "("

\* re.search(p, t, flags=re.IGNORECASE) for a pattern of literal letters
RegexSearch(p, t) == Contains(Lower(t), Lower(p))

\* A dict in insertion order: a sequence of [k, v]
DictHas(d, k) == \E i \in 1..Len(d) : d[i].k = k

DictGet(d, k, default) ==
    IF DictHas(d, k) THEN d[CHOOSE i \in 1..Len(d) : d[i].k = k].v ELSE default

\* d[k] = v
DictSet(d, k, v) ==
    IF DictHas(d, k)
    THEN [i \in 1..Len(d) |-> IF d[i].k = k THEN [k |-> k, v |-> v] ELSE d[i]]
    ELSE Append(d, [k |-> k, v |-> v])

\* The first key in insertion order, whatever the values.
DictFirstKey(d) == d[1].k

\* The maximum taken from the end: the last key of maximal value.
DictLastMaxKey(d) ==
    d[CHOOSE i \in 1..Len(d) :
          /\ \A j \in 1..Len(d) : d[j].v <= d[i].v
          /\ \A j \in (i + 1)..Len(d) : d[j].v < d[i].v].k

\* max(d, key=d.get): the first key, in insertion order, of maximal value
DictMaxKey(d) ==
    d[CHOOSE i \in 1..Len(d) :
          /\ \A j \in 1..Len(d) : d[j].v <= d[i].v
          /\ \A j \in 1..(i - 1) : d[j].v < d[i].v].k

RECURSIVE SeqMax(_)
\* max(list) of a non-empty list
SeqMax(s) ==
    IF Len(s) = 1 THEN s[1]
    ELSE IF s[1] >= SeqMax(Tail(s)) THEN s[1] ELSE SeqMax(Tail(s))

ClampInt(x, lo, hi) == IF x < lo THEN lo ELSE IF x > hi THEN hi ELSE x

\* The mapping without its upper clamp.
ConfidenceUnbounded(raw, unit) ==
    IF 50 * unit + 15 * raw < 40 * unit THEN 40 * unit ELSE 50 * unit + 15 * raw

\* _confidence(raw) = max(0.4, min(0.95, 0.5 + 0.15 * raw)), for raw
\* counting 1/unit and the result counting 1/(100 * unit)
Confidence(raw, unit) == ClampInt(50 * unit + 15 * raw, 40 * unit, 95 * unit)

\* urgency_map.get(intent, 10)
UrgencyMap(intent) ==
    IF intent = "neighbor_help" THEN 20
    ELSE IF intent = "technician_visit" THEN 30
    ELSE IF intent = "authority_urgent" THEN 90
    ELSE 10

\* entities.get(name, ('', 0.0)) on the dict _fetch_rules builds from
\* entity_def: the last row of a name wins, a NULL weight reads 0.5
EntityLookup(entity_def, name) ==
    IF \E i \in 1..Len(entity_def) : entity_def[i].name = name
    THEN LET i == CHOOSE i \in 1..Len(entity_def) :
                     /\ entity_def[i].name = name
                     /\ \A j \in (i + 1)..Len(entity_def) : entity_def[j].name # name
         IN  [tag |-> entity_def[i].tag,
              weight |-> IF entity_def[i].weight = Null THEN Num(50)
                         ELSE entity_def[i].weight]
    ELSE [tag |-> "", weight |-> Num(0)]

\* text_raw_scores[k] += w on a defaultdict(float)
DictAdd(d, k, w) == DictSet(d, k, DictGet(d, k, 0) + w)

\* The pattern test of one row against the lowered text
PatternHit(row, t) ==
    IF row.is_regex = 1 THEN RegexSearch(row.pattern, t)
    ELSE Contains(t, Lower(row.pattern))

\* The loop body with the entity's weight given in place of the rule's: a
\* row that names an entity with a tag leaves its own intent as it was.
PatternStepEntityInstead(acc, row, entity_def, t) ==
    LET w == OrElse(row.weight, 0)
        ent == EntityLookup(entity_def, row.entity_name)
        ew == OrElse(ent.weight, 0)
    IN  IF acc.err THEN acc
        ELSE IF row.is_regex = 1 /\ ~RegexCompiles(row.pattern)
        THEN [acc EXCEPT !.err = TRUE]
        ELSE IF ~PatternHit(row, t) THEN acc
        ELSE IF FloatRaises(w) THEN [acc EXCEPT !.err = TRUE]
        ELSE IF row.entity_name # "" /\ ent.tag # ""
        THEN IF FloatRaises(ew) THEN [acc EXCEPT !.err = TRUE]
             ELSE [acc EXCEPT !.raw = DictAdd(acc.raw, ent.tag, FloatOf(ew))]
        ELSE IF row.intent_name # "" THEN [acc EXCEPT !.raw = DictAdd(acc.raw, row.intent_name, FloatOf(w))]
        ELSE acc

\* classify lines 68-87: the body of the pattern loop for one row; acc is
\* text_raw_scores and whether an exception has ended the call
PatternStep(acc, row, entity_def, t) ==
    LET w == OrElse(row.weight, 0)
        ent == EntityLookup(entity_def, row.entity_name)
        ew == OrElse(ent.weight, 0)
        raw1 == IF row.intent_name # "" THEN DictAdd(acc.raw, row.intent_name, FloatOf(w))
                ELSE acc.raw
    IN  IF acc.err THEN acc
        ELSE IF row.is_regex = 1 /\ ~RegexCompiles(row.pattern)
        THEN [acc EXCEPT !.err = TRUE]
        ELSE IF ~PatternHit(row, t) THEN acc
        ELSE IF FloatRaises(w) THEN [acc EXCEPT !.err = TRUE]
        ELSE IF row.entity_name # "" /\ ent.tag # ""
        THEN IF FloatRaises(ew) THEN [acc EXCEPT !.err = TRUE]
             ELSE [acc EXCEPT !.raw = DictAdd(raw1, ent.tag, FloatOf(ew))]
        ELSE [acc EXCEPT !.raw = raw1]

RECURSIVE PatternLoop(_, _, _, _)
\* classify lines 68-87: for ... in patterns
PatternLoop(acc, rows, entity_def, t) ==
    IF rows = <<>> THEN acc
    ELSE PatternLoop(PatternStep(acc, Head(rows), entity_def, t), Tail(rows),
                     entity_def, t)

\* classify lines 64-66: text_raw_scores[name] = 0.0 for every intent
ZeroScores(intent_def) == [i \in 1..Len(intent_def) |-> [k |-> intent_def[i], v |-> 0]]

\* A text stage that contributes its best intent also when every raw
\* score is 0.
TextContributionAlways(raw) ==
    IF raw # <<>>
    THEN LET best == DictMaxKey(raw)
         IN  [scores |-> <<[k |-> best, v |-> Confidence(DictGet(raw, best, 0), 100)]>>,
              urg |-> <<[k |-> best, v |-> <<UrgencyMap(best)>>]>>,
              trace |-> <<"[text] best text intent">>]
    ELSE [scores |-> <<>>, urg |-> <<>>, trace |-> <<"[text] no text patterns matched">>]

\* A text stage that hands on the raw score instead of its mapped confidence.
TextContributionRaw(raw) ==
    IF raw # <<>> /\ \E i \in 1..Len(raw) : raw[i].v # 0
    THEN LET best == DictMaxKey(raw)
         IN  [scores |-> <<[k |-> best, v |-> 100 * DictGet(raw, best, 0)]>>,
              urg |-> <<[k |-> best, v |-> <<UrgencyMap(best)>>]>>,
              trace |-> <<"[text] best text intent">>]
    ELSE [scores |-> <<>>, urg |-> <<>>, trace |-> <<"[text] no text patterns matched">>]

\* classify lines 89-104: what the text stage puts into scores,
\* intent_urgencies and trace
TextContribution(raw) ==
    IF raw # <<>> /\ \E i \in 1..Len(raw) : raw[i].v # 0
    THEN LET best == DictMaxKey(raw)
         IN  [scores |-> <<[k |-> best, v |-> Confidence(DictGet(raw, best, 0), 100)]>>,
              urg |-> <<[k |-> best, v |-> <<UrgencyMap(best)>>]>>,
              trace |-> <<"[text] best text intent">>]
    ELSE [scores |-> <<>>, urg |-> <<>>, trace |-> <<"[text] no text patterns matched">>]

\* The operator test with an operator it does not know taken as a match.
OperatorMatchesUnknown(op, ev_val, rule_val) ==
    IF op = "equals" THEN ev_val = rule_val
    ELSE IF op = "contains" THEN Contains(ev_val, rule_val)
    ELSE TRUE

\* The operator test of a signal rule on the normalized values
OperatorMatches(op, ev_val, rule_val) ==
    IF op = "equals" THEN ev_val = rule_val
    ELSE IF op = "contains" THEN Contains(ev_val, rule_val)
    ELSE FALSE

\* _score_signal_rules lines 171-208: the body of the rule loop for one
\* evidence item and one enabled rule
SignalStep(acc, ev, row) ==
    LET min_c == OrElse(row.min_conf, 0)
        w == OrElse(row.weight, 100)
        urg == OrElse(row.urgency, 10)
    IN  IF acc.err THEN acc
        ELSE IF row.source # ev.source \/ row.feature # ev.feature THEN acc
        ELSE IF FloatRaises(min_c) THEN [acc EXCEPT !.err = TRUE]
        ELSE IF FloatOf(ev.conf) < FloatOf(min_c)
        THEN [acc EXCEPT !.trace = Append(@, "[signal] skip rule")]
        ELSE IF ~OperatorMatches(row.operator, Lower(ev.value), Lower(row.value)) THEN acc
        ELSE IF FloatRaises(w) \/ FloatRaises(urg) THEN [acc EXCEPT !.err = TRUE]
        ELSE [acc EXCEPT
                 !.scores = DictAdd(@, row.intent_name, FloatOf(w) * FloatOf(ev.conf)),
                 !.urg = DictSet(@, row.intent_name,
                                 Append(DictGet(@, row.intent_name, <<>>), FloatOf(urg))),
                 !.trace = Append(@, "[signal] HIT")]

RECURSIVE RuleLoop(_, _, _)
\* _score_signal_rules line 171: for ... in rows
RuleLoop(acc, ev, rows) ==
    IF rows = <<>> THEN acc
    ELSE RuleLoop(SignalStep(acc, ev, Head(rows)), ev, Tail(rows))

\* _score_signal_rules lines 165-171: one evidence item; float(ev.conf)
\* is taken before any rule is looked at
EvidenceStep(acc, ev, rows) ==
    IF acc.err THEN acc
    ELSE IF FloatRaises(ev.conf) THEN [acc EXCEPT !.err = TRUE]
    ELSE RuleLoop(acc, ev, rows)

RECURSIVE EvidenceLoop(_, _, _)
\* _score_signal_rules line 165: for ev in evidence
EvidenceLoop(acc, evidence, rows) ==
    IF evidence = <<>> THEN acc
    ELSE EvidenceLoop(EvidenceStep(acc, Head(evidence), rows), Tail(evidence), rows)

\* SELECT ... FROM signal_rule WHERE enabled = 1
EnabledRules(signal_rule) == SelectSeq(signal_rule, LAMBDA r : r.enabled = 1)

\* The signal stage without its closing trace lines.
ScoreSignalRulesSilent(signal_rule, evidence) ==
    EvidenceLoop([err |-> FALSE, scores |-> <<>>, urg |-> <<>>,
                  trace |-> <<"[signal] evidence items">>],
                 evidence, EnabledRules(signal_rule))

\* _score_signal_rules: scores, urgencies, the lines added to trace, and
\* whether it raised
ScoreSignalRules(signal_rule, evidence) ==
    LET start == [err |-> FALSE, scores |-> <<>>, urg |-> <<>>,
                  trace |-> <<"[signal] evidence items">>]
        acc == EvidenceLoop(start, evidence, EnabledRules(signal_rule))
    IN  IF acc.err THEN acc
        ELSE IF acc.scores # <<>>
        THEN [acc EXCEPT !.trace =
                 @ \o [i \in 1..Len(acc.scores) |-> "[signal] aggregate"]]
        ELSE [acc EXCEPT !.trace = Append(@, "[signal] no signal_rule matches")]

RECURSIVE Merge(_, _, _)
\* classify lines 108-110: scores[k] += s and intent_urgencies[k].extend(...)
\* for every item of sig_scores; m is [scores, urg]
Merge(m, sig_scores, sig_urg) ==
    IF sig_scores = <<>> THEN m
    ELSE LET k == Head(sig_scores).k
         IN  Merge([scores |-> DictAdd(m.scores, k, Head(sig_scores).v),
                    urg |-> DictSet(m.urg, k, DictGet(m.urg, k, <<>>)
                                                  \o DictGet(sig_urg, k, <<>>))],
                   Tail(sig_scores), sig_urg)

\* The outcome of a call that raised
Raised == [status |-> "error", intent |-> "", conf |-> 0, urgency |-> 0,
           raw_score |-> 0, trace |-> <<>>]

\* Classified(intent, conf, urgency, trace); raw_score is the total the
\* last trace line prints
Classified(intent, conf, urgency, raw_score, trace) ==
    [status |-> "ok", intent |-> intent, conf |-> conf, urgency |-> urgency,
     raw_score |-> raw_score, trace |-> trace]

\* A reader that answers empty tables when the database cannot be read.
StoreRaisesNever(st) == FALSE

\* sqlite3.connect / conn.execute raise when the database or one of the
\* four tables cannot be read
StoreRaises(st) == st.fault # "none"

\* classify(text, vision, db_path) on the rule store as it is
Classify(st, text, evidence) ==
    LET t == Lower(text)
        pat == PatternLoop([err |-> FALSE, raw |-> ZeroScores(st.intent_def)],
                           st.pattern_def, st.entity_def, t)
        txt == TextContribution(pat.raw)
        sig == ScoreSignalRules(st.signal_rule, evidence)
        m == Merge([scores |-> txt.scores, urg |-> txt.urg], sig.scores, sig.urg)
        trace == txt.trace \o sig.trace
        best == DictMaxKey(m.scores)
        total == DictGet(m.scores, best, 0)
        urg_list == IF DictGet(m.urg, best, <<>>) = <<>> THEN <<10>>
                    ELSE DictGet(m.urg, best, <<>>)
    IN  IF StoreRaises(st) \/ pat.err \/ sig.err THEN Raised
        ELSE IF m.scores = <<>>
        THEN Classified("unknown", 450000, 10, 0,
                        Append(trace, "[final] no scores from text or signal"))
        ELSE Classified(best, Confidence(total, 10000), SeqMax(urg_list), total,
                        Append(trace, "[final] chosen intent"))

\* The rule store and the inputs of the resolver

TextChars == {"p", "a", "A"}
Texts == UNION {[1..n -> TextChars] : n \in 0..MaxText}

IntentDef == <<"package_drop", "neighbor_help", "authority_urgent">>

PatternRow(p, re, intent, entity, w) ==
    [pattern |-> p, is_regex |-> re, intent_name |-> intent, entity_name |-> entity,
     weight |-> w]

\* pattern_def rows: a substring rule for package_drop of weight 1.0, a
\* regex rule, a rule naming an entity, a rule of negative weight
PkgRule == PatternRow(<<"p", "a">>, 0, "package_drop", "", Num(100))
HelpRegex == PatternRow(<<"A", "p">>, 1, "neighbor_help", "", Num(200))
AmandaRule == PatternRow(<<"a", "a">>, 0, "package_drop", "amanda", Num(100))
NegRule == PatternRow(<<"p", "p">>, 0, "authority_urgent", "", Num(-100))
\* rows no resolver can evaluate: a regex that does not compile, a weight
\* that is no number
BadRegex == PatternRow(<<"(", "a">>, 1, "neighbor_help", "", Num(100))
BadWeight == PatternRow(<<"a">>, 0, "neighbor_help", "", NotANumber)

EntityDef == <<[name |-> "amanda", tag |-> "neighbor_help", weight |-> Null]>>

SignalRow(src, feat, op, val, intent, w, minc, urg, en) ==
    [source |-> src, feature |-> feat, operator |-> op, value |-> val,
     intent_name |-> intent, weight |-> w, min_conf |-> minc, urgency |-> urg,
     enabled |-> en]

TokenEquals ==
    SignalRow("ocr", "token", "equals", <<"P", "a">>, "authority_urgent",
              Num(400), Num(50), Num(90), 1)
UniformContains ==
    SignalRow("vision", "uniform", "contains", <<"a">>, "neighbor_help",
              Num(50), Null, Null, 1)
DisabledRule ==
    SignalRow("ocr", "token", "equals", <<"p", "a">>, "package_drop",
              Num(100), Null, Num(10), 0)
GteRule ==
    SignalRow("vision", "uniform", "gte", <<"a">>, "package_drop",
              Num(100), Null, Num(10), 1)
NegSignal ==
    SignalRow("ocr", "token", "contains", <<"p">>, "package_drop",
              Num(-200), Null, Num(10), 1)
\* a rule whose weight and urgency are the number 0
ZeroWeight ==
    SignalRow("ocr", "token", "contains", <<"a">>, "neighbor_help",
              Num(0), Null, Num(0), 1)
BadSignalWeight ==
    SignalRow("ocr", "token", "equals", <<"p", "a">>, "neighbor_help",
              NotANumber, Null, Num(10), 1)

PatternTables ==
    {<<>>, <<PkgRule>>, <<PkgRule, HelpRegex>>, <<AmandaRule, PkgRule>>,
     <<NegRule, PkgRule>>}
SignalTables ==
    {<<>>, <<TokenEquals>>, <<UniformContains, TokenEquals>>, <<DisabledRule>>,
     <<GteRule, UniformContains>>, <<NegSignal>>, <<ZeroWeight>>}

MalformedPatternTables == {<<BadRegex, PkgRule>>, <<PkgRule, BadWeight>>}
MalformedSignalTables == {<<BadSignalWeight, TokenEquals>>}

StoreFaults == {"connect", "intent_def", "pattern_def", "entity_def", "signal_rule"}

Store(f, p, s) ==
    [fault |-> f, intent_def |-> IntentDef, pattern_def |-> p,
     entity_def |-> EntityDef, signal_rule |-> s]

\* The rule stores with rows of the schema's types, readable
Stores == {Store("none", p, s) : p \in PatternTables, s \in SignalTables}

\* Rule stores that cannot be read, or that hold a row the resolver cannot
\* evaluate
FaultyStores ==
    {Store(f, <<PkgRule>>, s) : f \in StoreFaults, s \in {<<>>, <<TokenEquals>>}}
    \cup {Store("none", p, s) : p \in MalformedPatternTables,
                                s \in {<<>>, <<TokenEquals>>}}
    \cup {Store("none", p, s) : p \in {<<>>, <<PkgRule>>}, s \in MalformedSignalTables}
    \cup {Store("none", p, s) : p \in {<<>>, <<PkgRule>>},
                                s \in {<<>>, <<UniformContains, TokenEquals>>}}

Ev(src, feat, val, c) == [source |-> src, feature |-> feat, value |-> val, conf |-> c]

\* Evidence items of perception: an OCR token read with confidence 0.8
\* and 0.4, a uniform seen, a uniform no rule names
EvidenceItems ==
    {Ev("ocr", "token", <<"p", "A">>, Num(80)),
     Ev("ocr", "token", <<"p", "a">>, Num(40)),
     Ev("vision", "uniform", <<"p", "a", "p">>, Num(100)),
     Ev("vision", "uniform", <<"p">>, Num(90))}

\* An evidence item whose conf is None
MalformedEvidence == Ev("ocr", "token", <<"p", "a">>, Null)

EvidenceLists == UNION {[1..n -> EvidenceItems] : n \in 0..MaxEvidence}

FaultyEvidenceLists ==
    UNION {[1..n -> {Ev("ocr", "token", <<"p", "A">>, Num(80)),
                     Ev("vision", "uniform", <<"p", "a", "p">>, Num(100)),
                     MalformedEvidence}] : n \in 0..MaxEvidence}

FaultyTexts == {<<>>, <<"p", "A">>, <<"a">>}

NoClassified == [status |-> "none", intent |-> "", conf |-> 0, urgency |-> 0,
                 raw_score |-> 0, trace |-> <<>>]
NoArguments == [text |-> <<>>, evidence |-> <<>>]

\* No resolver call yet: the store is s, the caller holds the arguments a
InitCls(s, a) ==
    /\ store = s
    /\ cls_in = a
    /\ cls = NoClassified

\* cls = classify(text, vision) with vision.evidence = evidence
Resolve ==
    /\ cls' = Classify(store, cls_in.text, cls_in.evidence)
    /\ UNCHANGED <<store, cls_in>>

----------------------------------------------------------------------------
(* The event transport and the loop that consumes it.                      *)
(* EventBus exists three times: on queue.Queue in event-bus.py and         *)
(* orchestrator_clean.py (put and get are atomic, get blocks while the     *)
(* queue is empty), and on a plain list in orchestrator.py (append and     *)
(* pop(0) are atomic, subscribe polls until the list is non-empty and      *)
(* then pops). An Event object is told from an equal one by id.            *)

Producers == {"camera", "doorbell", "main"}
BusImpls == {"queue", "list"}

\* Event(source="driveway", type="approach", ...) of camera_loop
ApproachEvent == [source |-> "driveway", type |-> "approach"]
\* Event(source="doorbell", type="ring") of simulate_doorbell
RingEvent == [source |-> "doorbell", type |-> "ring"]
\* Event(source="system", type="shutdown") of EventBus.shutdown
ShutdownEvent == [source |-> "system", type |-> "shutdown"]

Published(p) ==
    IF p = "camera" THEN {ApproachEvent}
    ELSE IF p = "doorbell" THEN {RingEvent}
    ELSE {ShutdownEvent}

\* The object a producer creates: the value and its identity
NewEvent(e, n) == [source |-> e.source, type |-> e.type, id |-> n]

\* A bus that puts the newest event first.
BusPutFront(q, e) == <<e>> \o q

\* Queue.put(event) / events.append(event)
BusPut(q, e) == Append(q, e)

\* Queue.get() / events.pop(0): the event returned and the queue left
BusGet(q) == [event |-> Head(q), rest |-> Tail(q)]

\* bell_orchestrator: evt.type == "shutdown"
IsShutdown(e) == e.type = "shutdown"

\* bell_orchestrator: evt.source == "doorbell" and evt.type == "ring"
IsRing(e) == e.source = "doorbell" /\ e.type = "ring"

\* No migration directory, a database at user_version 0, migrate never run
NoMigrations == [user_version |-> 0, files |-> {}, applied |-> <<>>, runs |-> 0]

InitMig == mig = NoMigrations

\* camera_loop before its first poll: seen_since = None, last_present =
\* False. clock is time.time() at the latest iteration; <<>> is None. began
\* and last_pub are history: the instant of the first poll of the presence
\* that still lasts, and of the latest event published during it.
NoCamera ==
    [clock |-> 0, seen_since |-> <<>>, last_present |-> FALSE,
     began |-> <<>>, last_pub |-> <<>>]

InitCam == cam = NoCamera

InitBus ==
    /\ queue = <<>>
    /\ bus_evt = <<>>
    /\ cpc = "subscribe"
    /\ published = <<>>
    /\ delivered = <<>>
    /\ handled = <<>>

InitOther ==
    /\ impl = "queue"
    /\ InitBus
    /\ InitCls(Store("none", <<>>, <<>>), NoArguments)
    /\ InitCam
    /\ InitMig

\* bus.publish(event) by producer p; bus.shutdown() when p is "main"
Publish(p) ==
    \E e \in Published(p) :
        LET o == NewEvent(e, Len(published) + 1)
        IN  /\ Len(published) < MaxPublished
            /\ queue' = BusPut(queue, o)
            /\ published' = Append(published, o)
            /\ UNCHANGED <<impl, bus_evt, cpc, delivered, handled>>

\* subscribe of the Queue buses: get blocks until an item exists
SubscribeGet ==
    /\ impl = "queue"
    /\ cpc = "subscribe"
    /\ queue # <<>>
    /\ bus_evt' = <<BusGet(queue).event>>
    /\ queue' = BusGet(queue).rest
    /\ delivered' = Append(delivered, BusGet(queue).event)
    /\ cpc' = "dispatch"
    /\ UNCHANGED <<impl, published, handled>>

\* subscribe of the list bus, the poll: `while not self.events` found an event
SubscribePoll ==
    /\ impl = "list"
    /\ cpc = "subscribe"
    /\ queue # <<>>
    /\ cpc' = "pop"
    /\ UNCHANGED <<impl, queue, bus_evt, published, delivered, handled>>

\* subscribe of the list bus, the return: self.events.pop(0), an IndexError
\* on an empty list
SubscribePop ==
    /\ impl = "list"
    /\ cpc = "pop"
    /\ IF queue = <<>>
       THEN /\ cpc' = "index_error"
            /\ UNCHANGED <<queue, bus_evt, delivered>>
       ELSE /\ bus_evt' = <<BusGet(queue).event>>
            /\ queue' = BusGet(queue).rest
            /\ delivered' = Append(delivered, BusGet(queue).event)
            /\ cpc' = "dispatch"
    /\ UNCHANGED <<impl, published, handled>>

\* The loop body after subscribe: break on the sentinel, call handle_ring
\* for a ring, and nothing but a print for every other event
Dispatch ==
    /\ cpc = "dispatch"
    /\ IF IsShutdown(bus_evt[1])
       THEN cpc' = "done" /\ UNCHANGED handled
       ELSE IF IsRing(bus_evt[1])
       THEN cpc' = "handling" /\ UNCHANGED handled
       ELSE cpc' = "subscribe" /\ handled' = Append(handled, bus_evt[1])
    /\ UNCHANGED <<impl, queue, bus_evt, published, delivered>>

\* handle_ring() returns
HandleRingReturns ==
    /\ cpc = "handling"
    /\ cpc' = "subscribe"
    /\ handled' = Append(handled, bus_evt[1])
    /\ UNCHANGED <<impl, queue, bus_evt, published, delivered>>

\* handle_ring() raises (policies file, camera, database, classify): the
\* loop has no try, the exception ends bell_orchestrator
HandleRingRaises ==
    /\ cpc = "handling"
    /\ cpc' = "raised"
    /\ UNCHANGED <<impl, queue, bus_evt, published, delivered, handled>>

Consume ==
    \/ SubscribeGet
    \/ SubscribePoll
    \/ SubscribePop
    \/ Dispatch
    \/ HandleRingReturns
    \/ HandleRingRaises

NextBus ==
    /\ \/ \E p \in Producers : Publish(p)
       \/ Consume
    /\ UNCHANGED <<engineVars, script, pc, frame, clsVars, camVars, migVars>>

InitOrchestrator ==
    /\ now = 0
    /\ subjects = <<>>
    /\ last_scene = <<>>
    /\ alerts = <<>>
    /\ evt = NoEvent
    /\ ret = NoCall
    /\ script = 0
    /\ pc = [c \in Callers |-> "idle"]
    /\ frame = [c \in Callers |-> NoFrame]
    /\ impl \in BusImpls
    /\ InitBus
    /\ InitCls(Store("none", <<>>, <<>>), NoArguments)
    /\ InitCam
    /\ InitMig

SpecBus == InitOrchestrator /\ [][NextBus]_vars

\* The consumer is the main thread: it runs whenever it can take a step.
SpecBusLive ==
    SpecBus /\ WF_vars(Consume /\ UNCHANGED <<engineVars, script, pc, frame, clsVars, camVars, migVars>>)

\* The loop with handle_ring followed into its classify call: the rule
\* store is readable or cannot be opened, the transcript and the evidence
\* are what perception hands over.
RingStores == {Store("none", <<PkgRule>>, <<>>), Store("connect", <<PkgRule>>, <<>>)}
RingArguments == [text |-> <<"p", "A">>, evidence |-> <<>>]

\* A handle_ring whose resolver remembers its first answer and gives it again.
HandleRingCached ==
    /\ cpc = "handling"
    /\ cls' = IF cls.status = "none"
              THEN Classify(store, cls_in.text, cls_in.evidence)
              ELSE cls
    /\ IF cls'.status = "error"
       THEN cpc' = "raised" /\ UNCHANGED handled
       ELSE cpc' = "subscribe" /\ handled' = Append(handled, bus_evt[1])
    /\ UNCHANGED <<impl, queue, bus_evt, published, delivered, store, cls_in>>

\* handle_ring(): cls = classify(asr.text, vision); an exception of classify
\* leaves handle_ring and, uncaught, bell_orchestrator
HandleRing ==
    /\ cpc = "handling"
    /\ cls' = Classify(store, cls_in.text, cls_in.evidence)
    /\ IF cls'.status = "error"
       THEN cpc' = "raised" /\ UNCHANGED handled
       ELSE cpc' = "subscribe" /\ handled' = Append(handled, bus_evt[1])
    /\ UNCHANGED <<impl, queue, bus_evt, published, delivered, store, cls_in>>

NextRing ==
    /\ \/ /\ \/ \E p \in Producers : Publish(p)
             \/ SubscribeGet
             \/ SubscribePoll
             \/ SubscribePop
             \/ Dispatch
          /\ UNCHANGED clsVars
       \/ HandleRing
    /\ UNCHANGED <<engineVars, script, pc, frame, camVars, migVars>>

InitRing ==
    /\ now = 0
    /\ subjects = <<>>
    /\ last_scene = <<>>
    /\ alerts = <<>>
    /\ evt = NoEvent
    /\ ret = NoCall
    /\ script = 0
    /\ pc = [c \in Callers |-> "idle"]
    /\ frame = [c \in Callers |-> NoFrame]
    /\ impl \in BusImpls
    /\ InitBus
    /\ \E s \in RingStores : InitCls(s, RingArguments)
    /\ InitCam
    /\ InitMig

SpecRing == InitRing /\ [][NextRing]_vars

----------------------------------------------------------------------------
(* The resolver driven by calls *)

InitEngineIdle ==
    /\ now = 0
    /\ subjects = <<>>
    /\ last_scene = <<>>
    /\ alerts = <<>>
    /\ evt = NoEvent
    /\ ret = NoCall
    /\ script = 0
    /\ pc = [c \in Callers |-> "idle"]
    /\ frame = [c \in Callers |-> NoFrame]
    /\ impl = "queue"
    /\ InitBus
    /\ InitCam
    /\ InitMig

\* The resolver called on a readable store of well-typed rows
InitClassify ==
    /\ InitEngineIdle
    /\ \E s \in Stores, text \in Texts, evidence \in EvidenceLists :
           InitCls(s, [text |-> text, evidence |-> evidence])

NextClassify ==
    Resolve /\ UNCHANGED <<engineVars, script, pc, frame, busVars, camVars, migVars>>

SpecClassify == InitClassify /\ [][NextClassify]_vars

\* The resolver called on a store that cannot be read or that holds a
\* malformed row, or with a malformed evidence item
InitFaulty ==
    /\ InitEngineIdle
    /\ \E s \in FaultyStores, text \in FaultyTexts, evidence \in FaultyEvidenceLists :
           InitCls(s, [text |-> text, evidence |-> evidence])

SpecFaulty == InitFaulty /\ [][NextClassify]_vars

\* The resolver called on rule tables under which intents tie: two signal
\* rules whose totals are equal over a uniform seen twice (1.9 * 1.0 and
\* 1.0 * 0.9 + 1.0 * 1.0), and a signal rule whose product equals the
\* mapped confidence 0.65 of the text rule.
TieX ==
    SignalRow("vision", "uniform", "contains", <<"a">>, "authority_urgent",
              Num(190), Null, Num(90), 1)
TieY ==
    SignalRow("vision", "uniform", "contains", <<"p">>, "neighbor_help",
              Num(100), Null, Null, 1)
TieText ==
    SignalRow("vision", "uniform", "contains", <<"p", "a">>, "neighbor_help",
              Num(65), Null, Null, 1)

TiePatternTables == {<<>>, <<PkgRule>>}
TieSignalTables == {<<TieX, TieY>>, <<TieText>>, <<TieText, TieX>>}
TieStores == {Store("none", p, s) : p \in TiePatternTables, s \in TieSignalTables}

InitTie ==
    /\ InitEngineIdle
    /\ \E s \in TieStores, text \in Texts, evidence \in EvidenceLists :
           InitCls(s, [text |-> text, evidence |-> evidence])

SpecTie == InitTie /\ [][NextClassify]_vars

\* The resolver called for one ring after another while the rule tables are
\* edited in the store: pattern_def and signal_rule rows are added, removed
\* and re-weighted, signal_rule rows are disabled.
Reweighted(row, w) == [row EXCEPT !.weight = Num(w)]
Disabled(row) == [row EXCEPT !.enabled = 0]

EditPatternTables ==
    {<<>>, <<PkgRule>>, <<Reweighted(PkgRule, 200)>>, <<PkgRule, HelpRegex>>}
EditSignalTables ==
    {<<>>, <<TokenEquals>>, <<Disabled(TokenEquals)>>, <<Reweighted(TokenEquals, 100)>>}
EditStores == {Store("none", p, s) : p \in EditPatternTables, s \in EditSignalTables}

BaseStore == Store("none", <<PkgRule>>, <<TokenEquals>>)
EditArguments ==
    [text |-> <<"p", "a">>, evidence |-> <<Ev("ocr", "token", <<"p", "A">>, Num(80))>>]

\* An INSERT, DELETE or UPDATE on the rule tables, committed by another
\* connection between two calls of the resolver
EditRules ==
    /\ \E s \in EditStores : s # store /\ store' = s
    /\ UNCHANGED <<cls_in, cls>>

InitEdit ==
    /\ InitEngineIdle
    /\ InitCls(BaseStore, EditArguments)

NextEdit ==
    /\ \/ /\ \/ Publish("doorbell")
             \/ SubscribeGet
             \/ Dispatch
          /\ UNCHANGED clsVars
       \/ HandleRing
       \/ EditRules /\ UNCHANGED busVars
    /\ UNCHANGED <<engineVars, script, pc, frame, camVars, migVars>>

SpecEdit == InitEdit /\ [][NextEdit]_vars

\* camera_loop (apps/orchestrator/orchestrator.py; driveway_loop of
\* camera-agent/loop.py has the same body without the try): every poll_sec
\* it takes a snapshot, and publishes an approach event once a person or a
\* vehicle has stayed in frame.
PersistSeconds == 30    \* now - seen_since > 3.0
\* A debounce of one second past the persistence threshold.
DebounceShort == PersistSeconds + 10
DebounceSeconds == 50   \* seen_since = now + 5.0
PollSec == 10           \* poll_sec = 1.0
\* From one clock reading to the next: the sleep, and the sleep with a
\* tenth of a second of detection
PollSteps == {PollSec, PollSec + 1}

\* One iteration of the loop whose detection succeeded
CameraPoll ==
    \E dt \in PollSteps, person_present \in BOOLEAN, vehicle_present \in BOOLEAN :
        LET t == cam.clock + dt
            moving_thing == person_present \/ vehicle_present
            seen_since == IF ~cam.last_present THEN <<t>> ELSE cam.seen_since
            fires == moving_thing /\ t - seen_since[1] > PersistSeconds
            o == NewEvent(ApproachEvent, Len(published) + 1)
        IN  /\ t <= MaxPollTime
            /\ IF fires
               THEN /\ Len(published) < MaxPublished
                    /\ queue' = BusPut(queue, o)
                    /\ published' = Append(published, o)
               ELSE UNCHANGED <<queue, published>>
            /\ cam' = [clock |-> t,
                       seen_since |-> IF ~moving_thing THEN <<>>
                                      ELSE IF fires THEN <<t + DebounceSeconds>>
                                      ELSE seen_since,
                       last_present |-> moving_thing,
                       began |-> IF ~moving_thing THEN <<>>
                                 ELSE IF cam.began = <<>> THEN <<t>>
                                 ELSE cam.began,
                       last_pub |-> IF ~moving_thing THEN <<>>
                                    ELSE IF fires THEN <<t>>
                                    ELSE cam.last_pub]
            /\ UNCHANGED <<impl, bus_evt, cpc, delivered, handled>>

\* One iteration whose snapshot_and_detect raised: the except clause
\* prints, the locals stay, the loop sleeps
CameraPollFails ==
    \E dt \in PollSteps :
        /\ cam.clock + dt <= MaxPollTime
        /\ cam' = [cam EXCEPT !.clock = cam.clock + dt]
        /\ UNCHANGED busVars

InitCamera ==
    /\ now = 0
    /\ subjects = <<>>
    /\ last_scene = <<>>
    /\ alerts = <<>>
    /\ evt = NoEvent
    /\ ret = NoCall
    /\ script = 0
    /\ pc = [c \in Callers |-> "idle"]
    /\ frame = [c \in Callers |-> NoFrame]
    /\ impl = "list"
    /\ InitBus
    /\ InitCls(Store("none", <<>>, <<>>), NoArguments)
    /\ InitCam
    /\ InitMig

NextCamera ==
    /\ \/ CameraPoll
       \/ CameraPollFails
    /\ UNCHANGED <<engineVars, script, pc, frame, clsVars, migVars>>

SpecCamera == InitCamera /\ [][NextCamera]_vars

\* migrate (storage/dao.py). A migration file is NNN_tag.sql: prefix is the
\* digits before the first underscore, as typed; a path is the string of
\* its characters, here their ASCII codes (the directory and .sql are the
\* same for all).
File(prefix, tag) == [prefix |-> prefix, tag |-> tag]

\* 01_a.sql, 02_a.sql, 2_a.sql, 10_a.sql, 10_b.sql
MigrationFiles ==
    {File(<<0, 1>>, "a"), File(<<0, 2>>, "a"), File(<<2>>, "a"),
     File(<<1, 0>>, "a"), File(<<1, 0>>, "b")}

RECURSIVE IntOf(_)
\* int(s) of a string of digits
IntOf(s) == IF s = <<>> THEN 0 ELSE 10 * IntOf(SubSeq(s, 1, Len(s) - 1)) + s[Len(s)]

\* version = int(os.path.basename(path).split("_")[0])
Version(f) == IntOf(f.prefix)

\* The characters of the basename up to the extension
Path(f) ==
    [i \in 1..Len(f.prefix) |-> 48 + f.prefix[i]]
    \o <<95, IF f.tag = "a" THEN 97 ELSE 98>>

\* str < str: by the first character that differs, a proper prefix first
StrLess(a, b) ==
    \E i \in 1..(Len(b)) :
        /\ \A j \in 1..(i - 1) : j <= Len(a) /\ a[j] = b[j]
        /\ \/ i = Len(a) + 1
           \/ i <= Len(a) /\ a[i] < b[i]

RECURSIVE Sorted(_)
\* sorted(glob.glob(...)): the paths in ascending string order
Sorted(S) ==
    IF S = {} THEN <<>>
    ELSE LET f == CHOOSE f \in S : \A g \in S \ {f} : StrLess(Path(f), Path(g))
         IN  <<f>> \o Sorted(S \ {f})

RECURSIVE MigrateLoop(_, _, _)
\* for path in migrations: a file of a version above current (the
\* user_version read before the loop) is executed and user_version set to
\* its version
MigrateLoop(db, current, migrations) ==
    IF migrations = <<>> THEN db
    ELSE LET path == Head(migrations)
             version == Version(path)
         IN  MigrateLoop(IF version > current
                         THEN [db EXCEPT !.applied = Append(@, path),
                                         !.user_version = version]
                         ELSE db,
                         current, Tail(migrations))

\* migrate()
Migrate ==
    /\ mig.runs < MaxRuns
    /\ mig' = [MigrateLoop(mig, mig.user_version, Sorted(mig.files))
                  EXCEPT !.runs = mig.runs + 1]

InitMigrate ==
    /\ now = 0
    /\ subjects = <<>>
    /\ last_scene = <<>>
    /\ alerts = <<>>
    /\ evt = NoEvent
    /\ ret = NoCall
    /\ script = 0
    /\ pc = [c \in Callers |-> "idle"]
    /\ frame = [c \in Callers |-> NoFrame]
    /\ impl = "queue"
    /\ InitBus
    /\ InitCls(Store("none", <<>>, <<>>), NoArguments)
    /\ InitCam
    /\ \E v \in {0, 1}, S \in SUBSET MigrationFiles :
           mig = [user_version |-> v, files |-> S, applied |-> <<>>, runs |-> 0]

NextMigrate ==
    Migrate /\ UNCHANGED <<engineVars, script, pc, frame, busVars, clsVars, camVars>>

SpecMigrate == InitMigrate /\ [][NextMigrate]_vars

----------------------------------------------------------------------------
(* The engine driven by a single consumer *)

Init ==
    /\ now = 0
    /\ subjects = <<>>
    /\ last_scene = <<>>
    /\ alerts = <<>>
    /\ evt = NoEvent
    /\ ret = NoCall
    /\ script = 0
    /\ pc = [c \in Callers |-> "idle"]
    /\ frame = [c \in Callers |-> NoFrame]
    /\ InitOther

\* BehaviorManager.execute(e), with time.time() returning t
Execute(e, t) ==
    LET nv == ExtractCounts(e)[1]
        np == ExtractCounts(e)[2]
        key == SubjectKey(e, nv, np)
        state == TrackSubject(subjects, key, t)
        sent == [state EXCEPT !.alert_sent = TRUE]
        verdict == Verdict(alerts, key, state.first_seen, t)
    IN  /\ t >= now
        /\ key \in DOMAIN subjects \/ Cardinality(DOMAIN subjects) < MaxSubjects
        /\ now' = t
        /\ evt' = e
        /\ IF verdict = "pending"
           THEN /\ subjects' = (key :> state) @@ subjects
                /\ ret' = PendingDecision
                /\ UNCHANGED <<alerts, last_scene>>
           ELSE IF verdict = "suppressed"
           THEN /\ subjects' = (key :> sent) @@ subjects
                /\ ret' = SuppressedDecision
                /\ UNCHANGED <<alerts, last_scene>>
           ELSE /\ Len(alerts) < MaxAlerts
                /\ alerts' = RecordAlert(alerts, key, state.first_seen, t)
                /\ subjects' = (key :> sent) @@ subjects
                /\ last_scene' = SceneSnapshot(nv, np, t)
                /\ ret' = AlertDecision(SceneMessage(last_scene, e, nv, np), key)

Call == \E e \in Events, t \in Times : Execute(e, t) /\ UNCHANGED nonEngineVars

Next == Call

Spec == Init /\ [][Next]_vars

\* A constructor that creates the table anew: the rows are gone.
RestartDropsTable ==
    /\ subjects' = <<>>
    /\ last_scene' = <<>>
    /\ alerts' = <<>>
    /\ evt' = NoEvent
    /\ ret' = NoCall
    /\ UNCHANGED <<now, nonEngineVars>>

\* BehaviorManager(db_path) constructed anew on the same database: the rows
\* of alerts stay (CREATE TABLE IF NOT EXISTS), the memory starts empty.
Restart ==
    /\ subjects' = <<>>
    /\ last_scene' = <<>>
    /\ evt' = NoEvent
    /\ ret' = NoCall
    /\ UNCHANGED <<now, alerts, nonEngineVars>>

RestartCall ==
    \E e \in RestartEvents, t \in Times : Execute(e, t) /\ UNCHANGED nonEngineVars

NextRestart == RestartCall \/ Restart

SpecRestart == Init /\ [][NextRestart]_vars

\* One engine shown every scene composition.
SceneCall ==
    \E e \in SceneEvents, t \in SceneTimes : Execute(e, t) /\ UNCHANGED nonEngineVars

SpecScene == Init /\ [][SceneCall]_vars

\* The manual test: one event built, then submitted to a new engine on an
\* empty database at the instants of ScriptTimes.
InitScript ==
    /\ now = 0
    /\ subjects = <<>>
    /\ last_scene = <<>>
    /\ alerts = <<>>
    /\ evt \in ScriptEvents
    /\ ret = NoCall
    /\ script = 0
    /\ pc = [c \in Callers |-> "idle"]
    /\ frame = [c \in Callers |-> NoFrame]
    /\ InitOther

ScriptCall ==
    /\ script < Len(ScriptTimes)
    /\ Execute(evt, ScriptTimes[script + 1])
    /\ script' = script + 1
    /\ UNCHANGED <<pc, frame, otherVars>>

SpecScript == InitScript /\ [][ScriptCall]_vars

----------------------------------------------------------------------------
(* One engine called by two threads: execute is not synchronized, so the   *)
(* callers interleave between its statements. A caller runs steps 1-3 of   *)
(* execute (memory only), then the cooldown SELECT, then the INSERT, then  *)
(* the rest; each database statement is its own connection and commit.     *)

\* execute lines 143-159 by caller c: clock, key, tracking, persistence gate
Begin(c, e, t) ==
    LET nv == ExtractCounts(e)[1]
        np == ExtractCounts(e)[2]
        key == SubjectKey(e, nv, np)
        state == TrackSubject(subjects, key, t)
        f == [evt |-> e, now |-> t, key |-> key, ret |-> NoCall]
    IN  /\ pc[c] = "idle"
        /\ t >= now
        /\ key \in DOMAIN subjects \/ Cardinality(DOMAIN subjects) < MaxSubjects
        /\ now' = t
        /\ subjects' = (key :> state) @@ subjects
        /\ IF NotPersisted(t, state.first_seen)
           THEN /\ frame' = [frame EXCEPT ![c] = [f EXCEPT !.ret = PendingDecision]]
                /\ pc' = pc
           ELSE /\ frame' = [frame EXCEPT ![c] = f]
                /\ pc' = [pc EXCEPT ![c] = "lookup"]
        /\ UNCHANGED <<alerts, last_scene, evt, ret, script, otherVars>>

\* execute lines 161-164 by caller c: the cooldown lookup
Lookup(c) ==
    /\ pc[c] = "lookup"
    /\ IF RecentAlertExists(alerts, frame[c].key, frame[c].now)
       THEN /\ subjects' = [subjects EXCEPT ![frame[c].key].alert_sent = TRUE]
            /\ frame' = [frame EXCEPT ![c].ret = SuppressedDecision]
            /\ pc' = [pc EXCEPT ![c] = "idle"]
       ELSE /\ pc' = [pc EXCEPT ![c] = "record"]
            /\ UNCHANGED <<subjects, frame>>
    /\ UNCHANGED <<now, alerts, last_scene, evt, ret, script, otherVars>>

\* execute line 167 by caller c: the insert
Record(c) ==
    /\ pc[c] = "record"
    /\ Len(alerts) < MaxAlerts
    /\ alerts' = RecordAlert(alerts, frame[c].key,
                             subjects[frame[c].key].first_seen, frame[c].now)
    /\ pc' = [pc EXCEPT ![c] = "finish"]
    /\ UNCHANGED <<now, subjects, last_scene, frame, evt, ret, script, otherVars>>

\* execute lines 168-178 by caller c: flag, message, return
Finish(c) ==
    LET e == frame[c].evt
        nv == ExtractCounts(e)[1]
        np == ExtractCounts(e)[2]
    IN  /\ pc[c] = "finish"
        /\ subjects' = [subjects EXCEPT ![frame[c].key].alert_sent = TRUE]
        /\ last_scene' = SceneSnapshot(nv, np, frame[c].now)
        /\ frame' = [frame EXCEPT ![c].ret =
                         AlertDecision(SceneMessage(last_scene, e, nv, np), frame[c].key)]
        /\ pc' = [pc EXCEPT ![c] = "idle"]
        /\ UNCHANGED <<now, alerts, evt, ret, script, otherVars>>

NextRace ==
    \E c \in Callers :
        \/ \E e \in RaceEvents, t \in RaceTimes : Begin(c, e, t)
        \/ Lookup(c)
        \/ Record(c)
        \/ Finish(c)

SpecRace == Init /\ [][NextRace]_vars

----------------------------------------------------------------------------
(* Properties of execute. A step with ret' # NoCall is a call of execute:  *)
(* evt' is its argument, now' its clock reading, ret' what it returned,    *)
(* and the unprimed variables are the engine and the table before it.      *)

IsCall == ret' # NoCall

\* When the engine first saw the subject of the call: now, for a new subject.
FirstSeenAt(key, t) ==
    IF key \in DOMAIN subjects THEN subjects[key].first_seen ELSE t

\* The table holds a row of key less than alert_cooldown old at t.
RecentRow(tbl, key, t) ==
    \E i \in 1..Len(tbl) :
        tbl[i].subject_key = key /\ t - tbl[i].last_alert_ts < AlertCooldown

\* C1. Persistence gate: a subject keeps the instant t0 of its first
\* observation; every call on it with now - t0 < min_persist returns
\* pending with action none, and every call with now - t0 >= min_persist
\* (so the first such call too) returns alert or suppressed.
PersistenceGate ==
    [][IsCall =>
        LET key == KeyOf(evt')
            t0 == FirstSeenAt(key, now')
        IN  /\ key \in DOMAIN subjects'
            /\ subjects'[key].first_seen = t0
            /\ \A k \in DOMAIN subjects :
                   k \in DOMAIN subjects' /\ subjects'[k].first_seen = subjects[k].first_seen
            /\ now' - t0 < MinPersist => ret' = PendingDecision
            /\ now' - t0 >= MinPersist => ret'.status \in {"alert", "suppressed"}]_vars

\* C1 witness: a call exactly min_persist after the first observation of its
\* subject has returned a non-pending decision.
PersistenceGateWitness ==
    /\ ret # NoCall
    /\ KeyOf(evt) \in DOMAIN subjects
    /\ now - subjects[KeyOf(evt)].first_seen = MinPersist
    /\ subjects[KeyOf(evt)].first_seen = 0
    /\ ret.status = "alert"

\* C2. Cooldown safety, single consumer: a call on a subject key for which
\* the engine recorded an alert less than alert_cooldown ago returns
\* suppressed, and no two rows of one subject key are ever less than
\* alert_cooldown apart.
CooldownSafety ==
    [][IsCall =>
        /\ RecentRow(alerts, KeyOf(evt'), now') => ret' = SuppressedDecision
        /\ \A i, j \in 1..Len(alerts') :
               (i < j /\ alerts'[i].subject_key = alerts'[j].subject_key)
               => alerts'[j].last_alert_ts - alerts'[i].last_alert_ts >= AlertCooldown]_vars

\* C2 witness: a call one tick before the cooldown of its subject's alert
\* ends was suppressed, with a single row of that subject in the table.
CooldownSafetyWitness ==
    /\ ret = SuppressedDecision
    /\ \E i \in 1..Len(alerts) :
          /\ alerts[i].subject_key = KeyOf(evt)
          /\ now - alerts[i].last_alert_ts = AlertCooldown - 1
    /\ Cardinality({i \in 1..Len(alerts) : alerts[i].subject_key = KeyOf(evt)}) = 1

\* C3. Double-alert race: the insert is a statement of its own, made
\* whatever the table holds by then, so a caller whose lookup found no
\* recent alert appends its row and returns alert even when another caller
\* has inserted a row of the same subject key since that lookup.
RaceInsertUnguarded ==
    [][\A c \in Callers :
        /\ (pc[c] = "record" /\ pc'[c] = "finish") =>
              alerts' = Append(alerts, [subject_key |-> frame[c].key,
                                        first_seen |-> subjects[frame[c].key].first_seen,
                                        last_alert_ts |-> frame[c].now])
        /\ (pc[c] = "finish" /\ pc'[c] = "idle") =>
              /\ frame'[c].ret.status = "alert"
              /\ frame'[c].ret.subject_key = frame[c].key]_vars

\* C3 witness: both callers have returned alert for one subject key, and
\* the table holds two rows of that key less than alert_cooldown apart.
DoubleAlertWitness ==
    /\ \A c \in Callers : pc[c] = "idle" /\ frame[c].ret.status = "alert"
    /\ frame["c1"].key = frame["c2"].key
    /\ \E i, j \in 1..Len(alerts) :
          /\ i < j
          /\ alerts[i].subject_key = frame["c1"].key
          /\ alerts[j].subject_key = frame["c1"].key
          /\ alerts[j].last_alert_ts - alerts[i].last_alert_ts < AlertCooldown
          /\ alerts[i].last_alert_ts - alerts[j].last_alert_ts < AlertCooldown

\* C4. End-to-end scenario: on a new engine and an empty table, the event
\* (driveway, approach, vehicle), with any payload, returns pending at 0 s,
\* alert with "A vehicle has arrived in the driveway." at 2.1 s and
\* suppressed at 10 s.
ScenarioOutcome ==
    (evt.source = "driveway" /\ evt.type = "approach" /\ evt.kind = "vehicle") =>
        /\ script = 1 => now = 0 /\ ret = PendingDecision
        /\ script = 2 =>
              /\ now = 21
              /\ ret = AlertDecision("A vehicle has arrived in the driveway.", KeyOf(evt))
        /\ script = 3 => now = 100 /\ ret = SuppressedDecision

\* C4 witness: the scenario has run to its third call, with the event of
\* the claim (no payload).
ScenarioWitness ==
    /\ evt = [ManualEvent EXCEPT !.payload = NoPayload]
    /\ script = 3
    /\ ret = SuppressedDecision
    /\ alerts = <<[subject_key |-> "driveway:approach:veh=1:ppl=0",
                   first_seen |-> 0, last_alert_ts |-> 21]>>

\* C5. First observation: a call on a subject key that is not in the
\* subject map creates its SubjectState with first_seen = now and returns
\* pending with action none, whatever rows the table holds.
FirstObservation ==
    [][(IsCall /\ KeyOf(evt') \notin DOMAIN subjects) =>
        /\ KeyOf(evt') \in DOMAIN subjects'
        /\ subjects'[KeyOf(evt')] =
              [first_seen |-> now', last_seen |-> now', alert_sent |-> FALSE]
        /\ ret' = PendingDecision
        /\ ret'.action = "none"
        /\ alerts' = alerts]_vars

\* C5 witness: a subject seen for the first time by this engine got
\* pending although the table holds a row of its key inside the cooldown.
FirstObservationWitness ==
    /\ ret = PendingDecision
    /\ KeyOf(evt) \in DOMAIN subjects
    /\ subjects[KeyOf(evt)] = [first_seen |-> now, last_seen |-> now, alert_sent |-> FALSE]
    /\ RecentRow(alerts, KeyOf(evt), now)

\* C6. Alert path: a call on a subject that has persisted min_persist, with
\* no row of its key less than alert_cooldown old, appends exactly the row
\* (subject_key, first_seen, now), sets alert_sent and returns status alert,
\* action speak, a message and the subject_key.
AlertPath ==
    [][LET key == KeyOf(evt')
           t0 == FirstSeenAt(key, now')
       IN  (IsCall /\ now' - t0 >= MinPersist /\ ~RecentRow(alerts, key, now')) =>
               /\ alerts' = Append(alerts, [subject_key |-> key, first_seen |-> t0,
                                            last_alert_ts |-> now'])
               /\ subjects'[key].alert_sent
               /\ DOMAIN ret' = {"status", "action", "message", "subject_key"}
               /\ ret'.status = "alert"
               /\ ret'.action = "speak"
               /\ ret'.message # ""
               /\ ret'.subject_key = key]_vars

\* C6 witness: an alert whose row follows an older row of the same key,
\* the cooldown of the older one being over.
AlertPathWitness ==
    /\ ret # NoCall
    /\ ret.status = "alert"
    /\ Len(alerts) >= 2
    /\ alerts[Len(alerts)].subject_key = KeyOf(evt)
    /\ alerts[Len(alerts)].last_alert_ts = now
    /\ alerts[Len(alerts)].first_seen < now
    /\ \E i \in 1..(Len(alerts) - 1) : alerts[i].subject_key = KeyOf(evt)

\* C7 as stated. Suppressed path: whenever the table holds a row of the
\* call's subject key less than alert_cooldown old, the call returns
\* suppressed with action none, sets alert_sent and leaves the table
\* unchanged; a pending call leaves the table unchanged.
SuppressedPathAsStated ==
    [][IsCall =>
        /\ RecentRow(alerts, KeyOf(evt'), now') =>
              /\ ret' = SuppressedDecision
              /\ subjects'[KeyOf(evt')].alert_sent
              /\ alerts' = alerts
        /\ ret' = PendingDecision => alerts' = alerts]_vars

\* C7 amended. Suppressed path: whenever the subject of the call has
\* persisted min_persist in this engine and the table holds a row of its
\* key less than alert_cooldown old, the call returns suppressed with
\* action none, sets alert_sent and leaves the table unchanged; a pending
\* call leaves the table unchanged.
SuppressedPath ==
    [][LET key == KeyOf(evt')
           t0 == FirstSeenAt(key, now')
       IN  IsCall =>
             /\ (now' - t0 >= MinPersist /\ RecentRow(alerts, key, now')) =>
                   /\ ret' = SuppressedDecision
                   /\ ret'.action = "none"
                   /\ subjects'[key].alert_sent
                   /\ alerts' = alerts
             /\ ret' = PendingDecision => alerts' = alerts]_vars

\* C7 witness: a suppressed call on a subject this engine had not flagged
\* yet: the row that suppresses it was written one tick less than
\* alert_cooldown ago for another sighting of the key.
SuppressedPathWitness ==
    /\ ret = SuppressedDecision
    /\ subjects[KeyOf(evt)].alert_sent
    /\ \E i \in 1..Len(alerts) :
          /\ alerts[i].subject_key = KeyOf(evt)
          /\ now - alerts[i].last_alert_ts = AlertCooldown - 1
          /\ alerts[i].first_seen # subjects[KeyOf(evt)].first_seen

\* The observation a call is about: source, type and the two counts.
Observation(e) == <<e.source, e.type, ExtractCounts(e)[1], ExtractCounts(e)[2]>>

\* The subject keys of the observations that differ from that of e.
KeysOfOtherObservations(e) ==
    {KeyOf(o) : o \in {x \in Events : Observation(x) # Observation(e)}}

\* C8. A change of source, type or counts bypasses the cooldown: when every
\* row less than alert_cooldown old was recorded for an observation that
\* differs from the call's in source, type, vehicle count or person count,
\* the call is not suppressed, and it alerts once its own subject has
\* persisted min_persist.
CountChangeBypassesCooldown ==
    [][LET key == KeyOf(evt')
           t0 == FirstSeenAt(key, now')
           recent == {i \in 1..Len(alerts) : now' - alerts[i].last_alert_ts < AlertCooldown}
       IN  (IsCall /\ \A i \in recent :
                         alerts[i].subject_key \in KeysOfOtherObservations(evt')) =>
               /\ ret' # SuppressedDecision
               /\ now' - t0 >= MinPersist => ret'.status = "alert"]_vars

\* C8 witness: an alert for one observation while the alert of an
\* observation with another person count is inside its cooldown.
CountChangeWitness ==
    /\ ret # NoCall
    /\ ret.status = "alert"
    /\ evt = [ManualEvent EXCEPT !.payload = Counts(1, 1)]
    /\ \E i \in 1..Len(alerts) :
          /\ alerts[i].subject_key = KeyOf(ManualEvent)
          /\ now - alerts[i].last_alert_ts < AlertCooldown

\* The subject keys of the driveway observations with v vehicles.
DrivewayKeysWithVehicles(v) ==
    {KeyOf(x) : x \in {y \in SceneEvents :
                          y.source = "driveway" /\ ExtractCounts(y)[1] = v}}

\* C9. When the latest alert was for a driveway scene with 1 vehicle and
\* the next alert-producing call is for a driveway scene with 2 vehicles,
\* the message of the second is "Another vehicle has arrived. There are now
\* 2 vehicles in the driveway."
AnotherVehicleMessage ==
    [][(/\ IsCall
        /\ ret'.status = "alert"
        /\ evt'.source = "driveway"
        /\ ExtractCounts(evt')[1] = 2
        /\ Len(alerts) >= 1
        /\ alerts[Len(alerts)].subject_key \in DrivewayKeysWithVehicles(1)) =>
          ret'.message =
              "Another vehicle has arrived. There are now 2 vehicles in the driveway."]_vars

\* C9 witness: two alerts in a row, driveway with 1 vehicle and then
\* driveway with 2 vehicles, the second with the message of the claim.
AnotherVehicleWitness ==
    /\ ret # NoCall
    /\ ret.status = "alert"
    /\ ret.message = "Another vehicle has arrived. There are now 2 vehicles in the driveway."
    /\ Len(alerts) = 2
    /\ alerts[1].subject_key \in DrivewayKeysWithVehicles(1)
    /\ alerts[2].subject_key \in DrivewayKeysWithVehicles(2)

\* The driveway table of C10 as the claim words it.
DrivewayTableAsStated(prev, nv, np) ==
    IF prev = <<>> \/ prev[1].num_vehicles = 0
    THEN IF nv = 0 /\ np >= 1 THEN "Someone is in the driveway."
         ELSE "A vehicle has arrived in the driveway."
    ELSE IF nv > prev[1].num_vehicles
    THEN "Another vehicle has arrived. There are now " \o ToString(nv)
         \o " vehicles in the driveway."
    ELSE IF np > prev[1].num_people
    THEN "Another person has entered the driveway. There are now "
         \o ToString(np) \o " people in view."
    ELSE "There is ongoing activity in the driveway."

\* The same table with the case the claim leaves out: neither a vehicle
\* nor a person, and no previous summary or one without vehicles.
DrivewayTable(prev, nv, np) ==
    IF (prev = <<>> \/ prev[1].num_vehicles = 0) /\ nv = 0 /\ np = 0
    THEN "Activity detected."
    ELSE DrivewayTableAsStated(prev, nv, np)

\* C10 as stated. Every driveway alert carries the message of the table:
\* with no previous summary or one of 0 vehicles, "A vehicle has arrived in
\* the driveway." (or "Someone is in the driveway." when only people are
\* present); otherwise "Another vehicle ..." when the vehicles exceed the
\* previous, else "Another person ..." when the people exceed the
\* previous, else "There is ongoing activity in the driveway."
DrivewayMessagesAsStated ==
    [][(IsCall /\ ret'.status = "alert" /\ evt'.source = "driveway") =>
          ret'.message = DrivewayTableAsStated(last_scene, ExtractCounts(evt')[1],
                                               ExtractCounts(evt')[2])]_vars

\* C10 amended. The same, and "Activity detected." when there is no
\* previous summary or one of 0 vehicles and the scene has neither a
\* vehicle nor a person.
DrivewayMessages ==
    [][(IsCall /\ ret'.status = "alert" /\ evt'.source = "driveway") =>
          ret'.message = DrivewayTable(last_scene, ExtractCounts(evt')[1],
                                       ExtractCounts(evt')[2])]_vars

\* C10 witness: a driveway alert of "Another person ...": the previous
\* summary has a vehicle, the vehicles did not rise, the people did.
DrivewayMessagesWitness ==
    /\ ret # NoCall
    /\ ret.status = "alert"
    /\ evt.source = "driveway"
    /\ ret.message = "Another person has entered the driveway. There are now 2 people in view."
    /\ Len(alerts) = 2

----------------------------------------------------------------------------
\* The doorbell table: a function of the counts alone.
DoorbellTable(nv, np) ==
    IF np >= 1 THEN "Someone is at the door."
    ELSE IF nv >= 1 THEN "A vehicle has pulled up by the door."
    ELSE "Activity detected."

\* C11. Every alert with source doorbell carries "Someone is at the door."
\* when people >= 1, else "A vehicle has pulled up by the door." when
\* vehicles >= 1, else "Activity detected.", whatever summary the engine
\* remembered when it composed the message (none, or any counts).
DoorbellMessages ==
    [][(IsCall /\ ret'.status = "alert" /\ evt'.source = "doorbell") =>
          /\ ret'.message = DoorbellTable(ExtractCounts(evt')[1], ExtractCounts(evt')[2])
          /\ \A prev \in {<<>>, last_scene} :
                SceneMessage(prev, evt', ExtractCounts(evt')[1], ExtractCounts(evt')[2])
                    = ret'.message]_vars

\* C11 witness: a doorbell alert composed while the engine remembers a
\* summary with more people and more vehicles than the doorbell scene.
DoorbellMessagesWitness ==
    /\ ret # NoCall
    /\ ret.status = "alert"
    /\ evt.source = "doorbell"
    /\ ret.message = "A vehicle has pulled up by the door."
    /\ Len(alerts) = 2
    /\ alerts[1].subject_key = "driveway:approach:veh=2:ppl=2"
    /\ alerts[2].subject_key = "doorbell:approach:veh=1:ppl=0"

----------------------------------------------------------------------------
\* C12. Transport FIFO without loss, any number of producers and one
\* consumer: the events subscribe has returned, followed by the events
\* still pending, are exactly the events published, each once and in the
\* order the publishes took effect; subscribe returns only an event that
\* was pending (never from an empty bus, which would be an IndexError on
\* the list bus), and what it returns is the oldest pending event.
TransportFifo ==
    /\ delivered \o queue = published
    /\ \A i, j \in 1..Len(delivered) : delivered[i] = delivered[j] => i = j
    /\ cpc # "index_error"
    /\ bus_evt # <<>> => /\ delivered # <<>>
                         /\ bus_evt[1] = delivered[Len(delivered)]

\* C12 witness: on the list bus, three producers have published, two
\* events were returned in publish order while one is still pending.
TransportFifoWitness ==
    /\ impl = "list"
    /\ Len(published) = 3
    /\ {published[i].source : i \in 1..3} = {"driveway", "doorbell", "system"}
    /\ Len(delivered) = 2
    /\ Len(queue) = 1

\* The sentinel: the first shutdown event published (0 when there is none)
Sentinel ==
    IF \E i \in 1..Len(published) : published[i] = NewEvent(ShutdownEvent, i)
    THEN CHOOSE i \in 1..Len(published) :
             /\ published[i] = NewEvent(ShutdownEvent, i)
             /\ \A j \in 1..(i - 1) : published[j] # NewEvent(ShutdownEvent, j)
    ELSE 0

\* The loop has ended at the sentinel, every event published before it
\* handled and none published after it.
EndedAtSentinel ==
    /\ cpc = "done"
    /\ handled = SubSeq(published, 1, Sentinel - 1)

\* C13. Once a shutdown event has been published, the consumer loop
\* eventually terminates, having handled every event published before the
\* sentinel and no event published after it.
ShutdownSentinel == (Sentinel # 0) ~> EndedAtSentinel

----------------------------------------------------------------------------
(* The resolver's claims. A call has been made when cls is not NoClassified. *)

\* The rows of pattern_def that the text matches (case-insensitive
\* substring, or regex search)
MatchedPatterns ==
    {i \in 1..Len(store.pattern_def) :
        PatternHit(store.pattern_def[i], Lower(cls_in.text))}

\* A signal rule applies to an evidence item: enabled, same (source,
\* feature), confidence not below min_conf, operator satisfied
SignalApplies(row, ev) ==
    /\ row.enabled = 1
    /\ row.source = ev.source /\ row.feature = ev.feature
    /\ ev.conf.v >= OrElse(row.min_conf, 0).v
    /\ OperatorMatches(row.operator, Lower(ev.value), Lower(row.value))

NoSignalApplies ==
    \A i \in 1..Len(store.signal_rule), j \in 1..Len(cls_in.evidence) :
        ~SignalApplies(store.signal_rule[i], cls_in.evidence[j])

\* C14. A text/evidence combination that matches no pattern rule and no
\* enabled signal rule resolves to intent "unknown", confidence 0.45,
\* urgency 10.
NoMatchIsUnknown ==
    (cls # NoClassified /\ MatchedPatterns = {} /\ NoSignalApplies) =>
        /\ cls.status = "ok"
        /\ cls.intent = "unknown"
        /\ cls.conf = 450000
        /\ cls.urgency = 10

\* C14 witness: a store with pattern rules and signal rules, a text none
\* of the patterns occurs in, an evidence item of the right feature and
\* value but below the rule's min_conf, and the answer unknown.
NoMatchIsUnknownWitness ==
    /\ cls.status = "ok" /\ cls.intent = "unknown"
    /\ store.pattern_def = <<PkgRule, HelpRegex>>
    /\ store.signal_rule = <<UniformContains, TokenEquals>>
    /\ cls_in.text = <<"a", "a">>
    /\ cls_in.evidence = <<Ev("ocr", "token", <<"p", "a">>, Num(40)),
                           Ev("vision", "uniform", <<"p">>, Num(90))>>

\* The text matches exactly one pattern rule, which targets package_drop
\* with weight 1.0, and no evidence matches a signal rule.
PackageScenario ==
    /\ cls # NoClassified
    /\ \E i \in 1..Len(store.pattern_def) :
          /\ MatchedPatterns = {i}
          /\ store.pattern_def[i].intent_name = "package_drop"
          /\ store.pattern_def[i].weight = Num(100)
    /\ NoSignalApplies

\* C15 as stated. In the package scenario the resolver returns intent
\* package_drop with confidence 0.65.
PackageScenarioAsStated ==
    PackageScenario => cls.intent = "package_drop" /\ cls.conf = 650000

\* C15 amended. In the package scenario, the rule naming no entity, the
\* resolver returns intent package_drop with confidence 0.5975: the clamp
\* mapping is applied to the raw score 1.0 (0.65) and then again to the
\* unified score 0.65.
PackageScenarioConfidence ==
    (PackageScenario /\ \A i \in MatchedPatterns : store.pattern_def[i].entity_name = "") =>
        /\ cls.status = "ok"
        /\ cls.intent = "package_drop"
        /\ cls.raw_score = 6500
        /\ cls.conf = 597500

\* C15 witness: the package rule beside a second pattern rule and signal
\* rules, the text "pA" (lowered, the pattern "pa"), evidence that no
\* rule matches.
PackageScenarioWitness ==
    /\ PackageScenario
    /\ cls.intent = "package_drop"
    /\ store.pattern_def = <<PkgRule, HelpRegex>>
    /\ store.signal_rule = <<UniformContains, TokenEquals>>
    /\ cls_in.text = <<"p", "A">>
    /\ cls_in.evidence = <<Ev("vision", "uniform", <<"p">>, Num(90))>>

\* Raw scores from -2.0 to 4.0 in steps of 0.05, counting 1/10^4
RawScores == {500 * k : k \in -40..80}

\* C16. The mapping clamp(0.5 + 0.15 * raw, 0.4, 0.95) is monotonic
\* non-decreasing and lies in [0.4, 0.95] for every raw score (below,
\* at and above the score of the call made), and every Classified
\* returned has confidence in [0.4, 0.95].
ConfidenceBounded ==
    cls.status = "ok" =>
        /\ cls.conf >= 400000 /\ cls.conf <= 950000
        /\ cls.intent # "unknown" => cls.conf = Confidence(cls.raw_score, 10000)
        /\ \A r \in RawScores :
              /\ Confidence(r, 10000) >= 400000 /\ Confidence(r, 10000) <= 950000
              /\ r <= cls.raw_score => Confidence(r, 10000) <= Confidence(cls.raw_score, 10000)
              /\ r >= cls.raw_score => Confidence(r, 10000) >= Confidence(cls.raw_score, 10000)

\* C16 witness: a call whose unified score 3.2 would map to 0.98 and is
\* returned as 0.95.
ConfidenceBoundedWitness ==
    /\ cls.status = "ok"
    /\ cls.raw_score = 32000
    /\ cls.conf = 950000

\* C17. When the rule store cannot be read, resolve fails with an error
\* that reaches the caller: it returns no Classified, in particular not
\* "unknown".
StoreFailurePropagates ==
    (cls # NoClassified /\ store.fault # "none") =>
        cls.status = "error" /\ cls.intent # "unknown"

\* C17 witness: the table signal_rule cannot be read; the text stage had
\* matched the package rule before the read failed; the call raised.
StoreFailureWitness ==
    /\ cls.status = "error"
    /\ store.fault = "signal_rule"
    /\ store.pattern_def = <<PkgRule>>
    /\ cls_in.text = <<"p", "A">>
    /\ cls_in.evidence # <<>>

\* s without its i-th element
Without(s, i) == SubSeq(s, 1, i - 1) \o SubSeq(s, i + 1, Len(s))

\* An evidence item whose confidence is no number
EvidenceMalformed(ev) == ev.conf.t # "num"

\* C18. A malformed evidence item is skipped and the remaining items are
\* still scored: the result equals the result of the same call with the
\* malformed item removed.
MalformedEvidenceSkipped ==
    cls # NoClassified =>
        \A i \in 1..Len(cls_in.evidence) :
            EvidenceMalformed(cls_in.evidence[i]) =>
                cls = Classify(store, cls_in.text, Without(cls_in.evidence, i))

\* A pattern row whose regex does not compile or whose weight is no number
PatternMalformed(row) ==
    \/ row.is_regex = 1 /\ ~RegexCompiles(row.pattern)
    \/ row.weight.t = "text"

\* A signal row whose weight is no number
SignalMalformed(row) == row.weight.t = "text"

\* C19. A malformed rule row is skipped and the remaining rules are still
\* applied: the result equals the result with that row removed.
MalformedRuleSkipped ==
    cls # NoClassified =>
        /\ \A i \in 1..Len(store.pattern_def) :
              PatternMalformed(store.pattern_def[i]) =>
                  cls = Classify([store EXCEPT !.pattern_def = Without(@, i)],
                                 cls_in.text, cls_in.evidence)
        /\ \A i \in 1..Len(store.signal_rule) :
              SignalMalformed(store.signal_rule[i]) =>
                  cls = Classify([store EXCEPT !.signal_rule = Without(@, i)],
                                 cls_in.text, cls_in.evidence)

\* The counts the kind alone gives
KindCounts(e) ==
    <<IF e.kind = "vehicle" THEN 1 ELSE 0, IF e.kind = "person" THEN 1 ELSE 0>>

----------------------------------------------------------------------------
\* C21. When handling an event fails because the rule store cannot be
\* read, the consumer loop does not end: the step that leaves handle_ring
\* takes the loop back to subscribe, with the event not counted as handled.
LoopSurvivesStoreFailure ==
    [][(cpc = "handling" /\ cpc' # "handling" /\ StoreRaises(store)) =>
          (cpc' = "subscribe" /\ handled' = handled)]_vars

----------------------------------------------------------------------------
\* C22. The alert history is append-only: no step, of a call or of a new
\* engine opened on the database, deletes or changes a row; a call that
\* returns alert adds exactly one row, a call that returns pending or
\* suppressed adds none.
AppendOnlyHistory ==
    [][/\ Len(alerts') >= Len(alerts)
       /\ SubSeq(alerts', 1, Len(alerts)) = alerts
       /\ IsCall => Len(alerts') = Len(alerts) + (IF ret'.status = "alert" THEN 1 ELSE 0)
       /\ ~IsCall => alerts' = alerts]_vars

\* C22 witness: a suppressed call on a table that holds two rows of its
\* key, the older one kept beside the newer.
AppendOnlyHistoryWitness ==
    /\ ret = SuppressedDecision
    /\ Len(alerts) = 2
    /\ alerts[1].subject_key = KeyOf(evt)
    /\ alerts[2].subject_key = KeyOf(evt)
    /\ alerts[1].last_alert_ts < alerts[2].last_alert_ts

----------------------------------------------------------------------------
\* C23. Every call that returns alert overwrites the remembered
\* SceneSummary with the counts of its event and the time of the call;
\* every call that returns pending or suppressed leaves it as it was.
SceneSummaryOverwrite ==
    [][IsCall =>
          IF ret'.status = "alert"
          THEN last_scene' = <<[num_vehicles |-> ExtractCounts(evt')[1],
                                num_people |-> ExtractCounts(evt')[2],
                                last_update_ts |-> now']>>
          ELSE last_scene' = last_scene]_vars

\* C23 witness: a pending call, for a scene of two vehicles, made while
\* the engine remembers the summary of an earlier alert for one vehicle.
SceneSummaryOverwriteWitness ==
    /\ ret = PendingDecision
    /\ evt = [ManualEvent EXCEPT !.payload = Counts(2, 0)]
    /\ last_scene = <<[num_vehicles |-> 1, num_people |-> 0, last_update_ts |-> 20]>>
    /\ now = 619

----------------------------------------------------------------------------
\* The counts as C24 words them: the payload's when there is a payload,
\* the fallback of the kind when there is none.
CountsAsStated(e) ==
    IF e.payload # NoPayload
    THEN <<e.payload.num_vehicles, e.payload.num_people>>
    ELSE KindCounts(e)

\* The same, with a count the payload gives as 0 replaced by the fallback
\* of the kind.
CountsWithFallback(e) ==
    <<IF CountsAsStated(e)[1] # 0 THEN CountsAsStated(e)[1] ELSE KindCounts(e)[1],
      IF CountsAsStated(e)[2] # 0 THEN CountsAsStated(e)[2] ELSE KindCounts(e)[2]>>

\* The subject key, the alert and the remembered summary of the scripted
\* event are those of the counts c.
CountsUsed(c) ==
    ret # NoCall =>
        /\ DOMAIN subjects = {SubjectKey(evt, c[1], c[2])}
        /\ ret.status = "alert" =>
              /\ ret.subject_key = SubjectKey(evt, c[1], c[2])
              /\ ret.message = SceneMessage(<<>>, evt, c[1], c[2])
              /\ alerts[Len(alerts)].subject_key = SubjectKey(evt, c[1], c[2])

----------------------------------------------------------------------------
\* text_raw_scores of the call made: what the pattern loop leaves
TextRaw ==
    PatternLoop([err |-> FALSE, raw |-> ZeroScores(store.intent_def)],
                store.pattern_def, store.entity_def, Lower(cls_in.text)).raw

\* What a row that hit gives to the raw score of k through its target
\* intent, and through the entity it names
IntentShare(row, k) ==
    IF row.intent_name = k /\ k # "" THEN OrElse(row.weight, 0).v ELSE 0

EntityShare(row, k) ==
    LET ent == EntityLookup(store.entity_def, row.entity_name)
    IN  IF row.entity_name # "" /\ ent.tag = k /\ k # "" THEN OrElse(ent.weight, 0).v
        ELSE 0

\* As C25 words it: the entity's share instead of the intent's
ShareAsStated(row, k) ==
    IF row.entity_name # "" THEN EntityShare(row, k) ELSE IntentShare(row, k)

\* As the code has it: the entity's share beside the intent's
ShareOfBoth(row, k) == IntentShare(row, k) + EntityShare(row, k)

RECURSIVE SumShares(_, _, _)
\* The sum, over the rows i of pattern_def that hit, of what each gives k
SumShares(i, k, stated) ==
    IF i = 0 THEN 0
    ELSE SumShares(i - 1, k, stated)
         + (IF i \in MatchedPatterns
            THEN IF stated THEN ShareAsStated(store.pattern_def[i], k)
                 ELSE ShareOfBoth(store.pattern_def[i], k)
            ELSE 0)

\* The names that can hold a raw score: the intents and the entity tags
ScoreKeys ==
    {store.intent_def[i] : i \in 1..Len(store.intent_def)}
    \cup {store.entity_def[i].tag : i \in 1..Len(store.entity_def)}

\* C25 as stated. A matching rule that names only a target intent adds its
\* weight to that intent's raw score; one that also names an entity adds
\* the entity's weight to the entity's tag instead, and its own target
\* intent receives nothing from it.
PatternScoringAsStated ==
    cls # NoClassified =>
        \A k \in ScoreKeys :
            DictGet(TextRaw, k, 0) = SumShares(Len(store.pattern_def), k, TRUE)

\* C25 amended. A matching rule adds its weight to its target intent's raw
\* score; one that also names an entity adds, beside that, the entity's
\* weight to the raw score of the entity's tag.
PatternScoring ==
    cls # NoClassified =>
        \A k \in ScoreKeys :
            DictGet(TextRaw, k, 0) = SumShares(Len(store.pattern_def), k, FALSE)

\* C25 witness: the text "aa" hits the rule that targets package_drop with
\* weight 1.0 and names the entity amanda (tag neighbor_help, weight 0.5):
\* both raw scores rise, and package_drop, the higher, is returned.
PatternScoringWitness ==
    /\ cls.status = "ok"
    /\ store.pattern_def = <<AmandaRule, PkgRule>>
    /\ cls_in.text = <<"a", "a">>
    /\ cls_in.evidence = <<>>
    /\ DictGet(TextRaw, "package_drop", 0) = 100
    /\ DictGet(TextRaw, "neighbor_help", 0) = 50
    /\ cls.intent = "package_drop"

----------------------------------------------------------------------------
\* The highest raw text score of the call made, and the intent that holds it
BestTextIntent == DictMaxKey(TextRaw)
BestTextRaw == DictGet(TextRaw, BestTextIntent, 0)

\* C26. The text stage contributes to the unified scores only when the raw
\* score of the selected highest-raw-score text intent is greater than 0
\* (then its mapped confidence and its default urgency); when that raw
\* score is 0 or negative no intent receives a text contribution or a text
\* default urgency, so that without an applicable signal rule the answer
\* is unknown.
TextStageOnlyPositive ==
    cls # NoClassified =>
        /\ BestTextRaw > 0 =>
              /\ TextContribution(TextRaw).scores =
                     <<[k |-> BestTextIntent, v |-> Confidence(BestTextRaw, 100)]>>
              /\ TextContribution(TextRaw).urg =
                     <<[k |-> BestTextIntent, v |-> <<UrgencyMap(BestTextIntent)>>]>>
        /\ BestTextRaw <= 0 =>
              /\ TextContribution(TextRaw).scores = <<>>
              /\ TextContribution(TextRaw).urg = <<>>
              /\ NoSignalApplies => cls.intent = "unknown"

----------------------------------------------------------------------------
\* What _score_signal_rules returns for the call made
SignalScores == ScoreSignalRules(store.signal_rule, cls_in.evidence)

\* The pairs (evidence item, signal rule) in the order the loops visit
\* them: pair n is item (n - 1) \div R + 1 and rule (n - 1) % R + 1
PairEvidence(n) == cls_in.evidence[((n - 1) \div Len(store.signal_rule)) + 1]
PairRule(n) == store.signal_rule[((n - 1) % Len(store.signal_rule)) + 1]
Pairs == Len(cls_in.evidence) * Len(store.signal_rule)

\* The weight and the urgency of a rule as its row gives them (1.0 and 10
\* for a row that gives none), and as the code reads them
RowWeight(row) == IF row.weight = Null THEN 100 ELSE row.weight.v
RowUrgency(row) == IF row.urgency = Null THEN 10 ELSE row.urgency.v
ReadWeight(row) == OrElse(row.weight, 100).v
ReadUrgency(row) == OrElse(row.urgency, 10).v

RECURSIVE SignalSum(_, _, _)
\* The sum over the first n pairs in which the rule applies to the item
\* and targets k of weight * evidence.confidence
SignalSum(n, k, asRow) ==
    IF n = 0 THEN 0
    ELSE SignalSum(n - 1, k, asRow)
         + (IF SignalApplies(PairRule(n), PairEvidence(n)) /\ PairRule(n).intent_name = k
            THEN (IF asRow THEN RowWeight(PairRule(n)) ELSE ReadWeight(PairRule(n)))
                 * PairEvidence(n).conf.v
            ELSE 0)

RECURSIVE SignalUrgencies(_, _, _)
\* The urgencies of those pairs, in order
SignalUrgencies(n, k, asRow) ==
    IF n = 0 THEN <<>>
    ELSE IF SignalApplies(PairRule(n), PairEvidence(n)) /\ PairRule(n).intent_name = k
    THEN Append(SignalUrgencies(n - 1, k, asRow),
                IF asRow THEN RowUrgency(PairRule(n)) ELSE ReadUrgency(PairRule(n)))
    ELSE SignalUrgencies(n - 1, k, asRow)

\* The intents signal rules target
SignalKeys == {store.signal_rule[i].intent_name : i \in 1..Len(store.signal_rule)}

\* C27. For every evidence item and every enabled signal rule that matches
\* it, exactly weight * evidence.confidence is added to the unified score
\* of the rule's target intent and the rule's urgency is appended to that
\* intent's urgency list, for every weight and urgency of the row, 0
\* included.
EvidenceContribution ==
    LET sig == SignalScores
    IN  cls # NoClassified =>
            \A k \in SignalKeys :
                /\ DictGet(sig.scores, k, 0) = SignalSum(Pairs, k, TRUE)
                /\ DictGet(sig.urg, k, <<>>) = SignalUrgencies(Pairs, k, TRUE)

\* An evidence item passes the gates of a rule, the gates written out:
\* enabled, same (source, feature), confidence not below min_conf,
\* equals on identical normalized values or contains on a substring
PassesGates(row, ev) ==
    /\ row.enabled = 1
    /\ row.source = ev.source
    /\ row.feature = ev.feature
    /\ ~(ev.conf.v < (IF row.min_conf = Null THEN 0 ELSE row.min_conf.v))
    /\ \/ row.operator = "equals" /\ Lower(ev.value) = Lower(row.value)
       \/ row.operator = "contains" /\ Contains(Lower(ev.value), Lower(row.value))

\* The pairs among the first n that pass the gates and target intent k
GatedPairs(k) ==
    {n \in 1..Pairs : PassesGates(PairRule(n), PairEvidence(n))
                      /\ PairRule(n).intent_name = k}

\* C28. An evidence item contributes to a signal rule's intent only if the
\* rule is enabled, (source, feature) are equal, the evidence confidence
\* is not below min_confidence and the operator matches; in every other
\* case, an unrecognised operator included, neither the score nor the
\* urgency list of any intent changes: an intent has a score exactly when
\* some pair passes the gates for it, one urgency per such pair, and its
\* score is the sum over those pairs alone.
EvidenceGating ==
    LET sig == SignalScores
    IN  cls # NoClassified =>
            /\ \A i \in 1..Len(sig.scores) : sig.scores[i].k \in SignalKeys
            /\ \A i \in 1..Len(sig.urg) : sig.urg[i].k \in SignalKeys
            /\ \A n \in 1..Pairs :
                  PassesGates(PairRule(n), PairEvidence(n))
                      <=> SignalApplies(PairRule(n), PairEvidence(n))
            /\ \A k \in SignalKeys :
                  /\ DictHas(sig.scores, k) <=> GatedPairs(k) # {}
                  /\ Len(DictGet(sig.urg, k, <<>>)) = Cardinality(GatedPairs(k))
                  /\ DictGet(sig.scores, k, 0) = SignalSum(Pairs, k, FALSE)
                  /\ DictGet(sig.urg, k, <<>>) = SignalUrgencies(Pairs, k, FALSE)

\* C28 witness: a uniform seen with confidence 1.0 meets a rule of the
\* unrecognised operator gte for package_drop and a contains rule for
\* neighbor_help: only neighbor_help is scored, 0.5.
EvidenceGatingWitness ==
    /\ cls.status = "ok"
    /\ store.signal_rule = <<GteRule, UniformContains>>
    /\ store.pattern_def = <<>>
    /\ cls_in.evidence = <<Ev("vision", "uniform", <<"p", "a", "p">>, Num(100))>>
    /\ SignalScores.scores = <<[k |-> "neighbor_help", v |-> 5000]>>
    /\ cls.intent = "neighbor_help"

----------------------------------------------------------------------------
\* The unified scores and the urgency lists of the call made, after the
\* text stage and the signal stage
Unified ==
    LET txt == TextContribution(TextRaw)
        sig == SignalScores
    IN  Merge([scores |-> txt.scores, urg |-> txt.urg], sig.scores, sig.urg)

\* C29. When at least one intent has accumulated score, the intent
\* returned has the maximum unified score among the accumulated intents,
\* the confidence returned is clamp(0.5 + 0.15 * total, 0.4, 0.95) of that
\* intent's total, and the urgency returned is the maximum of that
\* intent's urgency list (10 when the list is empty).
Resolution ==
    LET u == Unified
        total == DictGet(u.scores, cls.intent, 0)
        urgs == DictGet(u.urg, cls.intent, <<>>)
        mapped == 500000 + 15 * total
    IN  (cls # NoClassified /\ u.scores # <<>>) =>
            /\ cls.status = "ok"
            /\ DictHas(u.scores, cls.intent)
            /\ \A i \in 1..Len(u.scores) : u.scores[i].v <= total
            /\ cls.raw_score = total
            /\ cls.conf = IF mapped < 400000 THEN 400000
                          ELSE IF mapped > 950000 THEN 950000
                          ELSE mapped
            /\ IF urgs = <<>> THEN cls.urgency = 10
               ELSE /\ \E j \in 1..Len(urgs) : urgs[j] = cls.urgency
                    /\ \A j \in 1..Len(urgs) : urgs[j] <= cls.urgency

\* C29 witness: the text gave package_drop 0.65 first, the evidence
\* then gave authority_urgent 3.2 for each of two items: authority_urgent,
\* the later and higher one, is returned with urgency 90.
ResolutionWitness ==
    /\ cls.status = "ok"
    /\ Len(Unified.scores) = 2
    /\ Unified.scores[1] = [k |-> "package_drop", v |-> 6500]
    /\ Unified.scores[2].k = "authority_urgent"
    /\ Unified.scores[2].v = 64000
    /\ cls.intent = "authority_urgent"
    /\ cls.urgency = 90
    /\ cls.conf = 950000

----------------------------------------------------------------------------
\* The pairs (evidence item, enabled rule of its source and feature) in
\* which the confidence is below the rule's min_conf
SkippedPairs ==
    {n \in 1..Pairs :
        /\ PairRule(n).enabled = 1
        /\ PairRule(n).source = PairEvidence(n).source
        /\ PairRule(n).feature = PairEvidence(n).feature
        /\ PairEvidence(n).conf.v < OrElse(PairRule(n).min_conf, 0).v}

\* C30 as stated. When no intent accumulated any score, the Classified
\* returned (intent unknown) carries an empty trace.
UnknownTraceAsStated ==
    (cls.status = "ok" /\ Unified.scores = <<>>) =>
        cls.intent = "unknown" /\ cls.trace = <<>>

\* C30 amended. When no intent accumulated any score, the Classified
\* returned (intent unknown) carries the trace of the call: the line of
\* the text stage (no text patterns matched), the count of evidence
\* items, one skip line for every pair below min_conf, the line that no
\* signal rule matched, and the final line that there are no scores.
UnknownTrace ==
    (cls.status = "ok" /\ Unified.scores = <<>>) =>
        /\ cls.intent = "unknown"
        /\ Len(cls.trace) = 4 + Cardinality(SkippedPairs)
        /\ cls.trace[1] = "[text] no text patterns matched"
        /\ cls.trace[2] = "[signal] evidence items"
        /\ \A i \in 3..(Len(cls.trace) - 2) : cls.trace[i] = "[signal] skip rule"
        /\ cls.trace[Len(cls.trace) - 1] = "[signal] no signal_rule matches"
        /\ cls.trace[Len(cls.trace)] = "[final] no scores from text or signal"

\* C30 witness: an unknown whose trace has five lines, the third the skip
\* of the token rule for an item of confidence 0.4 below min_conf 0.5.
UnknownTraceWitness ==
    /\ cls.status = "ok"
    /\ cls.intent = "unknown"
    /\ cls_in.evidence = <<Ev("ocr", "token", <<"p", "a">>, Num(40))>>
    /\ store.signal_rule = <<TokenEquals>>
    /\ Len(cls.trace) = 5
    /\ cls.trace[3] = "[signal] skip rule"

----------------------------------------------------------------------------
\* C31: every call of the resolver scores against the rule tables as the
\* store holds them at that call, whatever was added, removed, disabled or
\* re-weighted since the call before, and the call leaves the tables as they
\* were.
RuleEditsApply ==
    [][(cpc = "handling" /\ cpc' # "handling")
       => /\ cls' = Classify(store, cls_in.text, cls_in.evidence)
          /\ store' = store]_vars

\* A second ring was handled after an edit, and its answer is the one of
\* the edited tables, not the one of the tables the first calls could see.
RuleEditsApplyWitness ==
    /\ Len(handled) >= 2
    /\ store # BaseStore
    /\ cls.status = "ok"
    /\ cls = Classify(store, cls_in.text, cls_in.evidence)
    /\ cls # Classify(BaseStore, cls_in.text, cls_in.evidence)

----------------------------------------------------------------------------
\* C32. A call removes no SubjectState of its engine and changes no
\* first_seen; so a call on a subject key whose earlier observations
\* already span min_persist never returns pending, however long the key
\* went unobserved: the returning subject is alerted or suppressed at once.
ReturningSubject ==
    [][IsCall =>
        LET key == KeyOf(evt')
        IN  /\ \A k \in DOMAIN subjects :
                   k \in DOMAIN subjects' /\ subjects'[k].first_seen = subjects[k].first_seen
            /\ (/\ key \in DOMAIN subjects
                /\ subjects[key].last_seen - subjects[key].first_seen >= MinPersist)
               => ret'.status \in {"alert", "suppressed"}]_vars

\* C32 witness: a subject first seen at 0 and alerted at min_persist is
\* observed again a whole cooldown later and alerted by that very call,
\* its first_seen still 0.
ReturningSubjectWitness ==
    /\ ret.status = "alert"
    /\ now = MinPersist + AlertCooldown
    /\ subjects[KeyOf(evt)].first_seen = 0
    /\ subjects[KeyOf(evt)].last_seen = now
    /\ Len(alerts) = 2
    /\ alerts[1].subject_key = KeyOf(evt) /\ alerts[1].last_alert_ts = MinPersist
    /\ alerts[2].subject_key = KeyOf(evt) /\ alerts[2].last_alert_ts = now

----------------------------------------------------------------------------
\* C33. Suppressed calls do not extend the cooldown: a suppressed call
\* writes no row, so the window runs from the latest recorded alert of the
\* key alone; a call on a persisted key whose latest row is alert_cooldown
\* old or older returns alert and records it, and the rows of one key are
\* never less than alert_cooldown apart.
RowsOf(tbl, key) == {i \in 1..Len(tbl) : tbl[i].subject_key = key}

CooldownFromLatestAlert ==
    [][IsCall =>
        LET key == KeyOf(evt')
            t0 == FirstSeenAt(key, now')
            rows == RowsOf(alerts, key)
        IN  /\ ret' = SuppressedDecision => alerts' = alerts
            /\ (/\ now' - t0 >= MinPersist
                /\ rows # {}
                /\ \A i \in rows : now' - alerts[i].last_alert_ts >= AlertCooldown)
               => /\ ret'.status = "alert"
                  /\ alerts'[Len(alerts')].subject_key = key
                  /\ alerts'[Len(alerts')].last_alert_ts = now'
            /\ \A i, j \in RowsOf(alerts', key) :
                   i < j => alerts'[j].last_alert_ts - alerts'[i].last_alert_ts
                                >= AlertCooldown]_vars

\* C33 witness: a key alerted at min_persist is alerted again exactly
\* alert_cooldown after that row, by an engine that has tracked it since 0.
CooldownFromLatestAlertWitness ==
    /\ ret.status = "alert"
    /\ subjects[KeyOf(evt)].first_seen = 0
    /\ \E i, j \in RowsOf(alerts, KeyOf(evt)) :
          /\ alerts[i].last_alert_ts = MinPersist
          /\ alerts[j].last_alert_ts = now
          /\ alerts[j].last_alert_ts - alerts[i].last_alert_ts = AlertCooldown

----------------------------------------------------------------------------
\* C34. The cooldown survives a restart: constructing a new engine on the
\* database leaves its rows, and while the table holds a row of a key less
\* than alert_cooldown old every call on that key, by whichever engine,
\* returns pending (until the engine has tracked the key for min_persist)
\* or suppressed (from then on), never alert.
IsRestart == ret' = NoCall /\ subjects' = <<>>

CooldownSurvivesRestart ==
    [][/\ IsRestart => alerts' = alerts
       /\ IsCall =>
            LET key == KeyOf(evt')
                t0 == FirstSeenAt(key, now')
            IN  RecentRow(alerts, key, now')
                => /\ alerts' = alerts
                   /\ ret' = IF now' - t0 < MinPersist
                             THEN PendingDecision
                             ELSE SuppressedDecision]_vars

\* C34 witness: a call is suppressed by a row that was written before its
\* engine first saw the key (the engine is younger than the row), one tick
\* before the cooldown ends.
CooldownSurvivesRestartWitness ==
    /\ ret = SuppressedDecision
    /\ Len(alerts) = 1
    /\ alerts[1].subject_key = KeyOf(evt)
    /\ subjects[KeyOf(evt)].first_seen >= alerts[1].last_alert_ts
    /\ now - alerts[1].last_alert_ts = AlertCooldown - 1

----------------------------------------------------------------------------
\* C35. Under a non-decreasing clock every step leaves the engine with:
\* first_seen <= last_seen in every SubjectState; alert_sent still true
\* wherever it was true in a SubjectState the engine keeps; a row of the
\* key in the alert history for every SubjectState with alert_sent true;
\* and last_alert_ts - first_seen >= min_persist in every row written.
EngineStateInvariant ==
    [][/\ \A k \in DOMAIN subjects' :
              subjects'[k].first_seen <= subjects'[k].last_seen
       /\ \A k \in DOMAIN subjects \cap DOMAIN subjects' :
              subjects[k].alert_sent => subjects'[k].alert_sent
       /\ \A k \in DOMAIN subjects' :
              subjects'[k].alert_sent => RowsOf(alerts', k) # {}
       /\ \A i \in 1..Len(alerts') :
              alerts'[i].last_alert_ts - alerts'[i].first_seen >= MinPersist]_vars

\* C35 witness: a subject seen from 0 on, alerted at min_persist and
\* suppressed later, beside a subject the engine has not alerted on.
EngineStateInvariantWitness ==
    /\ ret = SuppressedDecision
    /\ subjects[KeyOf(evt)].alert_sent
    /\ subjects[KeyOf(evt)].first_seen < subjects[KeyOf(evt)].last_seen
    /\ \E i \in RowsOf(alerts, KeyOf(evt)) :
           alerts[i].last_alert_ts - alerts[i].first_seen = MinPersist
    /\ \E k \in DOMAIN subjects : ~subjects[k].alert_sent

----------------------------------------------------------------------------
\* C36. Every decision has one of three shapes: status pending or
\* suppressed with action none and neither message nor subject_key, or
\* status alert with action speak, a message and the subject key of the
\* event; and a call answers speak exactly when it appended a row to the
\* alert history.
DecisionShapes ==
    [][IsCall =>
        /\ \/ /\ DOMAIN ret' = {"status", "action"}
              /\ ret'.status \in {"pending", "suppressed"}
              /\ ret'.action = "none"
           \/ /\ DOMAIN ret' = {"status", "action", "message", "subject_key"}
              /\ ret'.status = "alert"
              /\ ret'.action = "speak"
              /\ ret'.message # ""
              /\ ret'.subject_key = KeyOf(evt')
        /\ ret'.action = "speak" <=> Len(alerts') = Len(alerts) + 1
        /\ ret'.action # "speak" => alerts' = alerts]_vars

\* C36 witness: a call that answered alert with speak, its message and its
\* key, the row of that call being the second of the table.
DecisionShapesWitness ==
    /\ ret.status = "alert"
    /\ ret.action = "speak"
    /\ ret.message = "A vehicle has arrived in the driveway."
    /\ ret.subject_key = KeyOf(evt)
    /\ Len(alerts) = 2
    /\ alerts[2].subject_key = ret.subject_key
    /\ alerts[2].last_alert_ts = now

----------------------------------------------------------------------------
\* When intent k first received a contribution: 0 for the intent the text
\* stage selected, else the first pair (evidence item, rule), in the order
\* of the loops, that passes the gates for k
FirstContribution(k) ==
    LET txt == TextContribution(TextRaw).scores
    IN  IF txt # <<>> /\ txt[1].k = k THEN 0
        ELSE IF GatedPairs(k) # {}
        THEN CHOOSE n \in GatedPairs(k) : \A n2 \in GatedPairs(k) : n <= n2
        ELSE Pairs + 1

\* The intents of maximal unified score
MaximalIntents(u) ==
    {u[i].k : i \in {i \in 1..Len(u) : \A j \in 1..Len(u) : u[j].v <= u[i].v}}

\* C37. resolve is a function of the text, the evidence list and the rule
\* tables: a call on the same three returns what the call before returned;
\* and among the intents of equal maximal unified score the one returned
\* is the one that received a contribution first, the text-selected intent
\* before the signal intents, the signal intents in the order of their
\* first matching evidence item.
DeterministicTieBreak ==
    LET u == Unified.scores
    IN  cls # NoClassified =>
            /\ cls = Classify(store, cls_in.text, cls_in.evidence)
            /\ u # <<>> =>
                  /\ cls.intent \in MaximalIntents(u)
                  /\ \A k \in MaximalIntents(u) \ {cls.intent} :
                         FirstContribution(cls.intent) < FirstContribution(k)

\* C37 witness: authority_urgent and neighbor_help tie at 1.9; the rule of
\* authority_urgent is the first row of the table, but the first evidence
\* item matched the rule of neighbor_help only, and neighbor_help is
\* returned.
DeterministicTieBreakWitness ==
    /\ cls.status = "ok"
    /\ store.signal_rule = <<TieX, TieY>>
    /\ MaximalIntents(Unified.scores) = {"authority_urgent", "neighbor_help"}
    /\ cls.intent = "neighbor_help"
    /\ cls.raw_score = 19000

\* A tie of the text-selected intent with a signal intent: package_drop,
\* 0.65 from the text, is returned before neighbor_help, 0.65 * 1.0.
TextBeforeSignalWitness ==
    /\ cls.status = "ok"
    /\ MaximalIntents(Unified.scores) = {"package_drop", "neighbor_help"}
    /\ cls.intent = "package_drop"
    /\ cls.raw_score = 6500

----------------------------------------------------------------------------
\* C38. Producer debounce: the camera loop publishes an approach event
\* only at a poll that sees a person or a vehicle, more than 3 seconds
\* after the first poll of the presence that has lasted at every poll
\* since; a poll without presence resets the timer; and two events
\* published during one uninterrupted presence are more than 8 seconds
\* apart.
CameraDebounce ==
    [][cam'.clock # cam.clock =>
        LET fired == Len(published') = Len(published) + 1
        IN  /\ fired => /\ cam'.began # <<>>
                        /\ cam'.clock - cam'.began[1] > 30
            /\ (fired /\ cam.last_pub # <<>>) => cam'.clock - cam.last_pub[1] > 80
            /\ cam'.began = <<>> => (cam'.seen_since = <<>> /\ ~cam'.last_present)
            /\ ~fired => published' = published]_vars

\* C38 witness: a presence first polled at 1.0 s, its first event
\* published at 4.1 s (the earliest poll past 3 seconds), its second at
\* 12.2 s, 8.1 seconds later.
CameraDebounceWitness ==
    /\ Len(published) = 2
    /\ cam.began = <<10>>
    /\ cam.clock = 122
    /\ cam.last_pub = <<122>>

----------------------------------------------------------------------------
\* What a run of migrate executed: the scripts added to the history
Executed == SubSeq(mig'.applied, Len(mig.applied) + 1, Len(mig'.applied))

\* The files of a version above the user_version the run found
Newer == {f \in mig.files : Version(f) > mig.user_version}

\* C39. A run of migrate executes every migration file whose version is
\* greater than the database's user_version, each exactly once, in
\* ascending numeric order of version, and leaves user_version at the
\* highest version present (as it was when no file is newer); a run that
\* follows another on the same files executes nothing.
MigrateAscending ==
    [][mig'.runs = mig.runs + 1 =>
        /\ {Executed[i] : i \in 1..Len(Executed)} = Newer
        /\ Len(Executed) = Cardinality(Newer)
        /\ \A i, j \in 1..Len(Executed) :
               i < j => Version(Executed[i]) <= Version(Executed[j])
        /\ IF Newer = {} THEN mig'.user_version = mig.user_version
           ELSE \A f \in mig.files : Version(f) <= mig'.user_version
        /\ mig.runs >= 1 => Executed = <<>>]_vars

\* The same for directories whose prefixes all have the same number of
\* digits.
SameWidth == \A f, g \in mig.files : Len(f.prefix) = Len(g.prefix)

MigrateAscendingPadded ==
    [][(mig'.runs = mig.runs + 1 /\ SameWidth) =>
        /\ {Executed[i] : i \in 1..Len(Executed)} = Newer
        /\ Len(Executed) = Cardinality(Newer)
        /\ \A i, j \in 1..Len(Executed) :
               i < j => Version(Executed[i]) <= Version(Executed[j])
        /\ IF Newer = {} THEN mig'.user_version = mig.user_version
           ELSE \A f \in mig.files : Version(f) <= mig'.user_version
        /\ mig.runs >= 1 => Executed = <<>>]_vars

====
